---------------------------- MODULE Spec2Model ----------------------------
(***************************************************************************)
(* Peak fitting core of peakipy-web-app: the Levenberg-Marquardt optimizer *)
(* (levenbergMarquardt), the peak profiles, the rolling-ball estimator and *)
(* the fit orchestrator (fitPeaks), with the baseline controls of the      *)
(* control panel that feed it.                                             *)
(*                                                                         *)
(* Numbers.  The program computes in IEEE doubles; the model computes in   *)
(* fixed point: an integer v stands for v / Scale, so 0.01 is 1 and 1.0 is *)
(* 100.  Three values outside the range of the finite values stand for     *)
(* NaN, +Infinity and -Infinity and follow the IEEE rules where the code   *)
(* can produce them.  The damping factor lambda is kept as its decimal     *)
(* exponent (lambda = 10^lambdaExp), which is exact for the multiplications *)
(* by lambdaUp and lambdaDown when these are powers of ten.                *)
(***************************************************************************)
EXTENDS Integers, Sequences, FiniteSets, TLC

\* ------------------------------------------------------------------------
\* Fixed point and IEEE special values
\* ------------------------------------------------------------------------
Scale == 100
Fine == 1000
NaN == 2000000000
PosInf == 1000000000
NegInf == 0 - 1000000000

IsNum(v) == v # NaN /\ v # PosInf /\ v # NegInf

Abs(v) == IF v < 0 THEN 0 - v ELSE v

XNeg(a) == IF a = NaN THEN NaN ELSE IF a = PosInf THEN NegInf ELSE IF a = NegInf THEN PosInf ELSE 0 - a

XAdd(a, b) ==
  IF a = NaN \/ b = NaN THEN NaN
  ELSE IF a = PosInf THEN (IF b = NegInf THEN NaN ELSE PosInf)
  ELSE IF a = NegInf THEN (IF b = PosInf THEN NaN ELSE NegInf)
  ELSE IF b = PosInf \/ b = NegInf THEN b
  ELSE a + b

XSub(a, b) == XAdd(a, XNeg(b))

XSq(a) == IF a = NaN THEN NaN ELSE IF a = PosInf \/ a = NegInf THEN PosInf ELSE a * a


\* a < b as JavaScript evaluates it: false as soon as one side is NaN
XLt(a, b) == a # NaN /\ b # NaN /\ a < b

\* v || 0 : 0 and NaN are falsy
OrZero(v) == IF v = NaN THEN 0 ELSE v

\* Math.max(lo, v) for a finite lo: NaN if v is NaN
XMax(lo, v) == IF v = NaN THEN NaN ELSE IF v < lo THEN lo ELSE v

RECURSIVE XSum(_)
XSum(s) == IF s = <<>> THEN 0 ELSE XAdd(XSum(SubSeq(s, 1, Len(s) - 1)), s[Len(s)])

\* Math.exp(-t) for t >= 0 in fixed point: exp(-t/16)^16 with
\* exp(-s) = 1 - s + s^2/2, computed in units of 1/10000; exact at t = 0
ExpNeg(t) ==
  IF t >= 16 * Scale THEN 0
  ELSE LET s1 == (t * 100) \div 16
           b1 == 10000 - s1 + (s1 * s1) \div 20000
           b2 == (b1 * b1) \div 10000
           b4 == (b2 * b2) \div 10000
           b8 == (b4 * b4) \div 10000
       IN ((b8 * b8) \div 10000) \div 100

\* |d| / |w| as a fixed-point ratio, d in units of 1/Scale, w in units of
\* 1/(Scale*Fine); cut off at RatioCut, beyond which both profiles are below
\* half a unit for the amplitudes of the model
RatioCut == 100 * Scale
Ratio(d, w) ==
  LET q == (Abs(d) * Scale * Fine) \div Abs(w)
  IN IF q > RatioCut THEN RatioCut ELSE q

\* ------------------------------------------------------------------------
\* Peak profiles.  x, center, amplitude in units of 1/Scale; sigma and gamma
\* in units of 1/(Scale*Fine).
\* ------------------------------------------------------------------------
gaussian(x, center, amplitude, sigma) ==
  IF sigma = 0
  THEN (IF x = center THEN NaN ELSE 0)
  ELSE LET q == Ratio(x - center, sigma)
       IN (amplitude * ExpNeg((q * q) \div (2 * Scale))) \div Scale

lorentzian(x, center, amplitude, gamma) ==
  IF gamma = 0
  THEN (IF x = center THEN NaN ELSE 0)
  ELSE LET q == Ratio(x - center, gamma)
       IN (amplitude * Scale * Scale) \div (Scale * Scale + q * q)

voigt(x, center, amplitude, sigma, gamma) ==
  IF sigma + gamma = 0 THEN NaN
  ELSE LET eta == (gamma * Scale) \div (sigma + gamma)
           g == gaussian(x, center, Scale, sigma)
           l == lorentzian(x, center, Scale, gamma)
       IN IF g = NaN \/ l = NaN THEN NaN
          ELSE (amplitude * ((eta * l + (Scale - eta) * g) \div Scale)) \div Scale

\* width / 2.355 (= width * 200 / 471) and width / 2
SigmaOf(width) == (width * Fine * 200) \div 471
GammaOf(width) == (width * Fine) \div 2

\* a numeric option that is not set (undefined); an absent manualPoints is the
\* empty list and an absent manualInterp the empty string, which the code
\* treats alike
Undefined == 1500000000

\* the profile dispatch of calculatePeak for a given effective amplitude
ProfileValue(x, component, effectiveAmp) ==
  LET sigma == IF component.sigma # 0 THEN component.sigma * Fine ELSE SigmaOf(component.width)
      gamma == IF component.gamma # 0 THEN component.gamma * Fine ELSE GammaOf(component.width)
  IN CASE component.profile = "gaussian" -> gaussian(x, component.center, effectiveAmp, sigma)
       [] component.profile = "lorentzian" -> lorentzian(x, component.center, effectiveAmp, gamma)
       [] component.profile = "voigt" -> voigt(x, component.center, effectiveAmp, sigma, gamma)
       [] OTHER -> 0

\* calculatePeak with the weight left out of the effective amplitude
calculatePeakUnweighted(x, component) == ProfileValue(x, component, component.amplitude)

\* a component is [id, profile, center, amplitude, width, weight, sigma, gamma];
\* sigma = 0 / gamma = 0 is the absent (falsy) optional field, and a weight
\* that is Undefined counts as 1.0 (component.weight ?? 1.0)
calculatePeak(x, component) ==
  ProfileValue(x, component,
               (component.amplitude
                  * (IF component.weight = Undefined THEN Scale ELSE component.weight)) \div Scale)


\* ------------------------------------------------------------------------
\* Sequences of samples.  A sample is [x |-> , y |-> ].
\* ------------------------------------------------------------------------
Xs(samples) == [i \in 1..Len(samples) |-> samples[i].x]
Ys(samples) == [i \in 1..Len(samples) |-> samples[i].y]
Zip(xs, ys) == [i \in 1..Len(xs) |-> [x |-> xs[i], y |-> ys[i]]]

\* Map.get(x) after forEach(b => map.set(b.x, b.y)): the y of the last sample
\* with that x, or undefined (NaN here; every use is followed by || 0)
MapGet(curve, x) ==
  LET hits == {i \in 1..Len(curve) : curve[i].x = x}
  IN IF hits = {} THEN NaN
     ELSE curve[CHOOSE i \in hits : \A j \in hits : j <= i].y

\* params[k] of a JavaScript array, 0-based: undefined past the end, and
\* undefined behaves as NaN in the arithmetic that reads it
At(params, k) == IF k + 1 <= Len(params) THEN params[k + 1] ELSE NaN

\* Math.round(v) of a fixed-point v, as a fixed-point value
Round(v) == IF IsNum(v) THEN ((v + Scale \div 2) \div Scale) * Scale ELSE v

\* Math.ceil(v) of a fixed-point v, as a count
Ceil(v) == IF IsNum(v) THEN 0 - ((0 - v) \div Scale) ELSE v

XMul(a, b) ==
  IF a = NaN \/ b = NaN THEN NaN
  ELSE IF IsNum(a) /\ IsNum(b) THEN (a * b) \div Scale
  ELSE IF a = 0 \/ b = 0 THEN NaN
  ELSE IF (a > 0) = (b > 0) THEN PosInf ELSE NegInf

RECURSIVE XMinOf(_, _, _)
\* the minimum of y[j], from <= j < end (0-based, end exclusive), starting
\* from Infinity; a NaN bound runs the loop zero times
XMinOf(y, from, end) ==
  IF from = NaN \/ end = NaN THEN PosInf
  ELSE IF from >= end THEN PosInf
  ELSE LET rest == XMinOf(y, from + 1, end)
       IN IF XLt(y[from + 1], rest) THEN y[from + 1] ELSE rest

\* ------------------------------------------------------------------------
\* Floating-point rounding of a sum and of a quotient.  A double keeps 53
\* significant bits; the model keeps FloatBits of them, counted in units of
\* 1/Scale, and rounds to nearest, ties to even.
\* ------------------------------------------------------------------------
FloatBits == 8

RECURSIVE FloatUlp(_, _, _)
\* the spacing of the representable values around num / den (num >= 0, den > 0)
FloatUlp(num, den, ulp) ==
  IF num < (2 ^ FloatBits) * ulp * den THEN ulp ELSE FloatUlp(num, den, 2 * ulp)

\* mag / den (mag >= 0) rounded to a multiple of ulp, unit being ulp * den
FloatRoundBy(mag, unit, ulp) ==
  (IF 2 * (mag % unit) > unit \/ (2 * (mag % unit) = unit /\ (mag \div unit) % 2 = 1)
   THEN (mag \div unit) + 1 ELSE mag \div unit) * ulp

\* num / den rounded to a representable value (den > 0)
FloatRound(num, den) ==
  IF ~IsNum(num) THEN num
  ELSE IF num < 0
    THEN 0 - FloatRoundBy(0 - num, FloatUlp(0 - num, den, 1) * den, FloatUlp(0 - num, den, 1))
  ELSE FloatRoundBy(num, FloatUlp(num, den, 1) * den, FloatUlp(num, den, 1))

\* (a + b + c) / 3 as the doubles compute it, every operation rounded
Mean3(a, b, c) ==
  CHOOSE mean \in { FloatRound(sum, 3) :
                      sum \in { FloatRound(XAdd(ab, c), 1) :
                                  ab \in {FloatRound(XAdd(a, b), 1)} } } : TRUE

\* ------------------------------------------------------------------------
\* Rolling-ball estimator.  radius is a fixed-point value or NaN.
\* ------------------------------------------------------------------------
rollingBallBaseline(samples, radius) ==
  LET n == Len(samples)
      y == Ys(samples)
      halfWindow == Ceil(radius)
      start(i) == IF halfWindow = NaN THEN NaN
                  ELSE IF i - halfWindow < 0 THEN 0 ELSE i - halfWindow
      end(i) == IF halfWindow = NaN THEN NaN
                ELSE IF i + halfWindow + 1 > n THEN n ELSE i + halfWindow + 1
      minimum == [k \in 1..n |-> XMinOf(y, start(k - 1), end(k - 1))]
      \* each of the three passes reads baseline, not the previous pass
      smoothed(baseline) ==
        [k \in 1..n |->
           [x |-> samples[k].x,
            y |-> IF k = 1 \/ k = n THEN baseline[k]
                  ELSE Mean3(baseline[k - 1], baseline[k], baseline[k + 1])]]
  IN IF n < 3 THEN [k \in 1..n |-> [x |-> samples[k].x, y |-> 0]]
     ELSE CHOOSE curve \in {smoothed(baseline) : baseline \in {SubSeq(minimum, 1, n)}} : TRUE


\* ------------------------------------------------------------------------
\* State
\* ------------------------------------------------------------------------
VARIABLES
  baselineOptions,  \* Index.tsx: the baseline state (BaselineOptions)
  data,             \* fitPeaks: data
  components,       \* fitPeaks: components
  baseline,         \* fitPeaks: baseline, the supplied baseline curve
  caller,           \* who called levenbergMarquardt: "fitPeaks" or "direct"
  options,          \* levenbergMarquardt: options, with the defaults filled in
  pc,               \* "idle", "lm" (in the loop), "lmret" (returned), "done"
  y,                \* levenbergMarquardt: y, the target values
  params,           \* levenbergMarquardt: params
  lambdaExp,        \* levenbergMarquardt: lambda, as its decimal exponent
  residuals,        \* levenbergMarquardt: residuals
  chiSquared,       \* levenbergMarquardt: chiSquared
  converged,        \* levenbergMarquardt: converged
  iterations,       \* levenbergMarquardt: iterations
  iter,             \* levenbergMarquardt: the loop counter
  lastStep,         \* how the last pass ended: "none", "singular", "accepted", "rejected"
  chiBefore,        \* chiSquared before the last accepted step (relChange's chiSquared)
  passes,           \* the number of loop passes started by the current call
  fitResult,        \* fitPeaks: the returned FitResult, or NoResult
  call,             \* a call of one of the library's functions: its name, arguments and result
  ui                \* Index.tsx: the page's state and its pending fit timer

vars == <<baselineOptions, data, components, baseline, caller, options, pc, y, params,
          lambdaExp, residuals, chiSquared, converged, iterations, iter, lastStep,
          chiBefore, passes, fitResult, call, ui>>

lmVars == <<y, params, lambdaExp, residuals, chiSquared, converged, iterations, iter,
            lastStep, chiBefore, passes>>

callVars == <<data, components, baseline, caller, options>>

NoResult == [kind |-> "none"]
NoCall == [fn |-> "none"]
NoTimer == [kind |-> "none"]

\* ------------------------------------------------------------------------
\* fitPeaks: mode, packing and the model function
\* ------------------------------------------------------------------------
optimizeBaselineOf(opts) == opts.optimizeSimultaneously /\ opts.method # "none"

numBaselineParamsOf(opts) ==
  IF ~optimizeBaselineOf(opts) THEN 0
  ELSE CASE opts.method = "linear" -> 2
         [] opts.method = "rolling_ball" -> 1
         [] OTHER -> 0

\* packing that forgets the weight
RECURSIVE PackUnweighted(_)
PackUnweighted(comps) ==
  IF comps = <<>> THEN <<>>
  ELSE LET comp == Head(comps)
       IN <<comp.center, comp.amplitude, comp.width>> \o PackUnweighted(Tail(comps))

RECURSIVE PackComponents(_)
PackComponents(comps) ==
  IF comps = <<>> THEN <<>>
  ELSE LET comp == Head(comps)
           effectiveAmp == (comp.amplitude * comp.weight) \div Scale
       IN <<comp.center, effectiveAmp, comp.width>> \o PackComponents(Tail(comps))

initialParamsOf(comps, opts) ==
  PackComponents(comps) \o
    (IF ~optimizeBaselineOf(opts) THEN <<>>
     ELSE CASE opts.method = "linear" -> <<opts.slope, opts.intercept>>
            [] opts.method = "rolling_ball" -> <<opts.radius>>
            [] OTHER -> <<>>)

\* one component's contribution at x, from the packed parameters
PeakTerm(comps, c, xi, ps) ==
  LET center == At(ps, (c - 1) * 3)
      amplitude == At(ps, (c - 1) * 3 + 1)
      width == At(ps, (c - 1) * 3 + 2)
      sigma == SigmaOf(width)
      gamma == GammaOf(width)
      profile == comps[c].profile
  IN CASE profile = "gaussian" -> gaussian(xi, center, amplitude, sigma)
       [] profile = "lorentzian" -> lorentzian(xi, center, amplitude, gamma)
       [] profile = "voigt" -> voigt(xi, center, amplitude, sigma, gamma)
       [] OTHER -> 0

PeakSum(comps, x, ps) ==
  [i \in 1..Len(x) |-> XSum([c \in 1..Len(comps) |-> PeakTerm(comps, c, x[i], ps)])]

modelFuncOf(comps, opts, yVals, x, ps) ==
  LET result == PeakSum(comps, x, ps)
      blParamsStart == Len(comps) * 3
  IN IF optimizeBaselineOf(opts) /\ numBaselineParamsOf(opts) > 0
     THEN CASE opts.method = "linear" ->
                 LET slope == At(ps, blParamsStart)
                     intercept == At(ps, blParamsStart + 1)
                 IN [i \in 1..Len(x) |-> XAdd(result[i], XAdd(XMul(slope, x[i]), intercept))]
            [] opts.method = "rolling_ball" ->
                 LET radius == XMax(Scale, Round(At(ps, blParamsStart)))
                     peakOnly == PeakSum(comps, x, ps)
                     yMinusPeaks == [i \in 1..Len(x) |-> XSub(yVals[i], peakOnly[i])]
                     rbBl == rollingBallBaseline(Zip(x, yMinusPeaks), radius)
                 IN [i \in 1..Len(x) |-> XAdd(peakOnly[i], OrZero(rbBl[i].y))]
            [] OTHER -> result
     ELSE result

modelFunc(x, ps) == modelFuncOf(components, baselineOptions, Ys(data), x, ps)

\* For non-simultaneous optimization the target is baseline-corrected
targetYValsOf(d, bl, opts) ==
  IF optimizeBaselineOf(opts) THEN Ys(d)
  ELSE [i \in 1..Len(d) |-> d[i].y - OrZero(MapGet(bl, d[i].x))]

ResidualsOf(yObs, yPred) == [i \in 1..Len(yObs) |-> XSub(yObs[i], yPred[i])]
ChiSquaredOf(res) == XSum([i \in 1..Len(res) |-> XSq(res[i])])


\* ------------------------------------------------------------------------
\* levenbergMarquardt
\* ------------------------------------------------------------------------
\* defaults of the options, as decimal exponents, and the fixed thresholds
DefaultLambdaInitExp == -3
DefaultLambdaUpExp == 1
DefaultLambdaDownExp == 1
\* lambda > 1e10
MaxLambdaExp == 10
\* Math.max(val, 1e-10) in the damping, and the pivot threshold 1e-12
DampFloorExp == -10
PivotTolExp == -12
\* 1 / tolerance for the tolerance fitPeaks passes (1e-8)
FitTolInv == 100000000

\* bounds of the model
MaxIter == 3

Null == <<"null">>
NaNStep == <<"NaN">>

\* The step sizes a solved step may take in one coordinate.  The Jacobian is
\* a finite difference with epsilon = 1e-8 and the step is the solution of
\* the damped normal equations in doubles; the model keeps of them what the
\* control flow depends on: which columns of J are exactly zero, whether the
\* system is singular, and that the step is some vector, null or NaN.
Steps == {0 - 200, 50}

\* the zero columns without the one of the rolling-ball radius
ZeroColumnsOfPeaks(ps) ==
  {j \in 1..Len(ps) :
     \E c \in 1..Len(components) :
       /\ ps[(c - 1) * 3 + 2] = 0
       /\ j \in {(c - 1) * 3 + 1, (c - 1) * 3 + 3}}

\* the parameters whose Jacobian column is exactly zero: perturbing them by
\* 1e-8 leaves every model value unchanged.  Center and width of a component
\* of amplitude 0; the rolling-ball radius, which the model function rounds.
ZeroColumns(ps) ==
  {j \in 1..Len(ps) :
     \/ \E c \in 1..Len(components) :
          /\ ps[(c - 1) * 3 + 2] = 0
          /\ j \in {(c - 1) * 3 + 1, (c - 1) * 3 + 3}
     \/ /\ optimizeBaselineOf(baselineOptions)
        /\ baselineOptions.method = "rolling_ball"
        /\ j = Len(components) * 3 + 1}

UnitStep(p, j, s) == [k \in 1..p |-> IF k = j THEN s ELSE 0]

\* solveLinear(H, JtR) for H = JtJ + lambda * max(diag, 1e-10), and J from
\* calculateJacobian at ps:
\*  - a NaN model value makes every entry of H NaN: no pivot test fails
\*    (Math.abs(NaN) < 1e-12 is false) and the solution is NaN;
\*  - a zero column j of J leaves row j of H with the lone entry
\*    lambda * 1e-10 and JtR[j] = 0: the pivot is below 1e-12, and the result
\*    null, exactly when lambda * 1e-10 < 1e-12; otherwise delta[j] = 0;
\*  - zero residuals give JtR = 0 and the zero step.
SolveOutcomes(ps, res, lamExp) ==
  IF \E i \in 1..Len(res) : res[i] = NaN THEN {NaNStep}
  ELSE IF ZeroColumns(ps) # {} /\ lamExp + DampFloorExp < PivotTolExp THEN {Null}
  ELSE IF \A i \in 1..Len(res) : res[i] = 0 THEN {UnitStep(Len(ps), 0, 0)}
  ELSE {UnitStep(Len(ps), 0, 0)} \cup
       {UnitStep(Len(ps), j, s) : j \in (1..Len(ps)) \ ZeroColumns(ps), s \in Steps}

\* the convergence test with the comparison turned around
RelChangeAbove(chiOld, chiNew, tolInv) == (chiOld - chiNew) > chiOld \div tolInv

\* relChange < tolerance, relChange = (chiSquared - newChiSquared) / (chiSquared + 1e-10),
\* tolerance = 1 / tolInv.  Chi-squared counts in units of 1/Scale^2, of which
\* 1e-10 is less than one: tolInv * (old - new) < old + (less than one), that is
\* tolInv * (old - new) <= old.
RelChangeBelow(chiOld, chiNew, tolInv) == (chiOld - chiNew) <= chiOld \div tolInv

\* acceptance that also takes a step of equal chi-squared
ImprovesOrEqual(newChiSquared, chi) ==
  newChiSquared # NaN /\ chi # NaN /\ newChiSquared <= chi

\* if (newChiSquared < chiSquared)
Improves(newChiSquared, chi) == XLt(newChiSquared, chi)

\* the loop ends: iter < maxIterations fails
LMLoopEnd ==
  /\ pc = "lm"
  /\ ~(iter < options.maxIterations)
  /\ pc' = "lmret"
  /\ UNCHANGED <<baselineOptions, callVars, lmVars, fitResult>>
  /\ UNCHANGED <<call, ui>>

\* a singular pass that ends the loop once lambda exceeds 1e10, as a rejected
\* step does
LMSingularBreaks ==
  /\ pc = "lm"
  /\ iter < options.maxIterations
  /\ Null \in SolveOutcomes(params, residuals, lambdaExp)
  /\ iterations' = iter + 1
  /\ lambdaExp' = lambdaExp + options.lambdaUpExp
  /\ lastStep' = "singular"
  /\ passes' = passes + 1
  /\ IF lambdaExp' > MaxLambdaExp
     THEN pc' = "lmret" /\ UNCHANGED iter
     ELSE iter' = iter + 1 /\ UNCHANGED pc
  /\ UNCHANGED <<baselineOptions, callVars, y, params, residuals, chiSquared,
                 converged, chiBefore, fitResult>>
  /\ UNCHANGED <<call, ui>>

\* a singular pass that retries without counting as a pass of the loop
LMSingularRetries ==
  /\ pc = "lm"
  /\ iter < options.maxIterations
  /\ Null \in SolveOutcomes(params, residuals, lambdaExp)
  /\ lambdaExp' = lambdaExp + options.lambdaUpExp
  /\ lastStep' = "singular"
  /\ passes' = passes + 1
  /\ UNCHANGED <<baselineOptions, callVars, pc, y, params, residuals, chiSquared,
                 converged, iterations, iter, chiBefore, fitResult>>
  /\ UNCHANGED <<call, ui>>

\* a pass whose system is singular: lambda *= lambdaUp; continue
LMSingular ==
  /\ pc = "lm"
  /\ iter < options.maxIterations
  /\ Null \in SolveOutcomes(params, residuals, lambdaExp)
  /\ iterations' = iter + 1
  /\ lambdaExp' = lambdaExp + options.lambdaUpExp
  /\ iter' = iter + 1
  /\ lastStep' = "singular"
  /\ passes' = passes + 1
  /\ UNCHANGED <<baselineOptions, callVars, pc, y, params, residuals, chiSquared,
                 converged, chiBefore, fitResult>>
  /\ UNCHANGED <<call, ui>>

NewParams(ps, delta) ==
  IF delta = NaNStep THEN [k \in 1..Len(ps) |-> NaN]
  ELSE [k \in 1..Len(ps) |-> ps[k] + delta[k]]

NewChiSquared(ps, delta) ==
  IF delta = NaNStep THEN NaN
  ELSE ChiSquaredOf(ResidualsOf(y, modelFunc(Xs(data), NewParams(ps, delta))))

\* a pass whose step lowers chi-squared
LMAccept ==
  /\ pc = "lm"
  /\ iter < options.maxIterations
  /\ \E delta \in SolveOutcomes(params, residuals, lambdaExp) \ {Null} :
       LET newParams == NewParams(params, delta)
           newResiduals == ResidualsOf(y, modelFunc(Xs(data), newParams))
           newChiSquared == NewChiSquared(params, delta)
       IN /\ Improves(newChiSquared, chiSquared)
          /\ iterations' = iter + 1
          /\ params' = newParams
          /\ residuals' = newResiduals
          /\ chiBefore' = chiSquared
          /\ chiSquared' = newChiSquared
          /\ lastStep' = "accepted"
          /\ IF RelChangeBelow(chiSquared, newChiSquared, options.tolInv)
             THEN /\ converged' = TRUE
                  /\ pc' = "lmret"
                  /\ UNCHANGED <<lambdaExp, iter>>
             ELSE /\ lambdaExp' = lambdaExp - options.lambdaDownExp
                  /\ iter' = iter + 1
                  /\ UNCHANGED <<converged, pc>>
  /\ passes' = passes + 1
  /\ UNCHANGED <<baselineOptions, callVars, y, fitResult>>
  /\ UNCHANGED <<call, ui>>

\* a pass whose step does not lower chi-squared
LMReject ==
  /\ pc = "lm"
  /\ iter < options.maxIterations
  /\ \E delta \in SolveOutcomes(params, residuals, lambdaExp) \ {Null} :
       /\ ~Improves(NewChiSquared(params, delta), chiSquared)
       /\ iterations' = iter + 1
       /\ lambdaExp' = lambdaExp + options.lambdaUpExp
       /\ lastStep' = "rejected"
       /\ IF lambdaExp' > MaxLambdaExp
          THEN pc' = "lmret" /\ UNCHANGED iter
          ELSE iter' = iter + 1 /\ UNCHANGED pc
  /\ passes' = passes + 1
  /\ UNCHANGED <<baselineOptions, callVars, y, params, residuals, chiSquared,
                 converged, chiBefore, fitResult>>
  /\ UNCHANGED <<call, ui>>


\* ------------------------------------------------------------------------
\* fitPeaks: the result
\* ------------------------------------------------------------------------
MinWidth == 1

\* a / k for a fixed-point a and an integer k, by the IEEE rules
XDivInt(a, k) ==
  IF a = NaN THEN NaN
  ELSE IF k = 0 THEN (IF a = 0 THEN NaN ELSE IF a > 0 THEN PosInf ELSE NegInf)
  ELSE IF ~IsNum(a) THEN (IF k > 0 THEN a ELSE XNeg(a))
  ELSE IF k > 0 THEN a \div k
  ELSE (0 - a) \div (0 - k)

XTimesInt(a, k) ==
  IF a = NaN THEN NaN
  ELSE IF ~IsNum(a) THEN (IF k = 0 THEN NaN ELSE IF k > 0 THEN a ELSE XNeg(a))
  ELSE a * k

RECURSIVE ISqrtFrom(_, _, _)
\* the largest root not above the square root of v that is r plus bits from bit down
ISqrtFrom(v, r, bit) ==
  IF bit = 0 THEN r
  ELSE IF (r + bit) * (r + bit) <= v THEN ISqrtFrom(v, r + bit, bit \div 2)
  ELSE ISqrtFrom(v, r, bit \div 2)
\* Math.sqrt of a non-negative count of units of 1/Scale^2, in units of 1/Scale
XSqrt(v) == IF v = NaN THEN NaN ELSE IF v = PosInf THEN PosInf ELSE ISqrtFrom(v, 0, 16384)

RECURSIVE LnRatio(_, _)
\* Math.log(num / den) for positive integers, in fixed point: ln 2 = 0.69 per
\* doubling and linear in between
LnRatio(num, den) ==
  IF num >= 2 * den THEN 69 + LnRatio(num, 2 * den)
  ELSE IF num < den THEN LnRatio(2 * num, den) - 69
  ELSE ((num - den) * 69) \div den
XLn(num, den) ==
  IF num = NaN THEN NaN
  ELSE IF num = PosInf THEN PosInf
  ELSE IF num = 0 THEN NegInf
  ELSE LnRatio(num, den)

\* a degenerate return that drops the input components
EmptyResultNoParameters(comps) ==
  [kind |-> "FitResult", fittedData |-> <<>>, residuals |-> <<>>, components |-> <<>>,
   baseline |-> <<>>, baselineCorrectedData |-> <<>>,
   rSquared |-> 0, adjustedRSquared |-> 0, rmse |-> 0, chiSquared |-> 0,
   reducedChiSquared |-> 0, aic |-> 0, bic |-> 0,
   parameters |-> <<>>, iterations |-> 0, converged |-> FALSE,
   hasOptimizedBaseline |-> FALSE, optimizedBaseline |-> <<>>, baselineParams |-> <<>>]

\* the degenerate return of fitPeaks
EmptyResult(comps) ==
  [kind |-> "FitResult", fittedData |-> <<>>, residuals |-> <<>>, components |-> <<>>,
   baseline |-> <<>>, baselineCorrectedData |-> <<>>,
   rSquared |-> 0, adjustedRSquared |-> 0, rmse |-> 0, chiSquared |-> 0,
   reducedChiSquared |-> 0, aic |-> 0, bic |-> 0,
   parameters |-> comps, iterations |-> 0, converged |-> FALSE,
   hasOptimizedBaseline |-> FALSE, optimizedBaseline |-> <<>>, baselineParams |-> <<>>]

\* unpacking without the clamps
unclampedParamsOf(comps, ps) ==
  [i \in 1..Len(comps) |->
     [comps[i] EXCEPT !.center = ps[(i - 1) * 3 + 1],
                      !.amplitude = ps[(i - 1) * 3 + 2],
                      !.width = ps[(i - 1) * 3 + 3],
                      !.weight = Scale]]

\* unpack the optimized peak parameters
optimizedParamsOf(comps, ps) ==
  [i \in 1..Len(comps) |->
     [comps[i] EXCEPT !.center = ps[(i - 1) * 3 + 1],
                      !.amplitude = XMax(0, ps[(i - 1) * 3 + 2]),
                      !.width = XMax(MinWidth, ps[(i - 1) * 3 + 3]),
                      !.weight = Scale]]

\* the baseline recomputed from the optimized baseline parameters
hasOptimizedBaselineOf(opts) ==
  optimizeBaselineOf(opts) /\ numBaselineParamsOf(opts) > 0 /\
    opts.method \in {"linear", "rolling_ball"}

optimizedBaselineOf(comps, opts, d, ps) ==
  LET xVals == Xs(d)
      yVals == Ys(d)
      blParamsStart == Len(comps) * 3
  IN CASE opts.method = "linear" ->
            LET slope == At(ps, blParamsStart)
                intercept == At(ps, blParamsStart + 1)
            IN [i \in 1..Len(d) |-> [x |-> xVals[i], y |-> XAdd(XMul(slope, xVals[i]), intercept)]]
       [] opts.method = "rolling_ball" ->
            LET radius == XMax(Scale, Round(At(ps, blParamsStart)))
                peakModel == modelFuncOf(comps, opts, yVals, xVals, SubSeq(ps, 1, Len(comps) * 3))
                yMinusPeaks == [i \in 1..Len(d) |-> XSub(yVals[i], peakModel[i])]
            IN rollingBallBaseline(Zip(xVals, yMinusPeaks), radius)
       [] OTHER -> <<>>

baselineParamsOf(comps, opts, ps) ==
  CASE opts.method = "linear" -> <<At(ps, Len(comps) * 3), At(ps, Len(comps) * 3 + 1)>>
    [] opts.method = "rolling_ball" -> <<XMax(Scale, Round(At(ps, Len(comps) * 3)))>>
    [] OTHER -> <<>>

FitResultOf(comps, opts, d, bl, ps, chi, its, conv) ==
  LET optimizedParams == optimizedParamsOf(comps, ps)
      hasOpt == hasOptimizedBaselineOf(opts)
      optimizedBaseline == IF hasOpt THEN optimizedBaselineOf(comps, opts, d, ps) ELSE <<>>
      finalBaseline == IF hasOpt THEN optimizedBaseline ELSE bl
      n == Len(d)
      p == Len(optimizedParams) * 3 + numBaselineParamsOf(opts)
      meanY == XSum(Ys(d)) \div n
      baselineY(i) == OrZero(MapGet(finalBaseline, d[i].x))
      correctedY(i) == XSub(d[i].y, baselineY(i))
      peakY(i, j) == calculatePeak(d[i].x, optimizedParams[j])
      fittedY(i) == XSum([j \in 1..Len(optimizedParams) |-> peakY(i, j)])
      sumSquaredResiduals == XSum([i \in 1..n |-> XSq(XSub(correctedY(i), fittedY(i)))])
      sumSquaredTotal == XSum([i \in 1..n |-> XSq(d[i].y - meanY)])
      ratio == IF sumSquaredTotal = 0 THEN XDivInt(sumSquaredResiduals, Scale)
               ELSE XDivInt(XTimesInt(sumSquaredResiduals, Scale), sumSquaredTotal)
      rSquared == XSub(Scale, ratio)
      adjustedRSquared == XSub(Scale, XDivInt(XTimesInt(XSub(Scale, rSquared), n - 1), n - p - 1))
      dof == IF n - p < 1 THEN 1 ELSE n - p
      nLn == XTimesInt(XLn(sumSquaredResiduals, n * Scale * Scale), n)
  IN [kind |-> "FitResult",
      fittedData |-> [i \in 1..n |-> [x |-> d[i].x, y |-> fittedY(i)]],
      residuals |-> [i \in 1..n |-> [x |-> d[i].x, y |-> XSub(correctedY(i), fittedY(i))]],
      components |-> [j \in 1..Len(optimizedParams) |->
                        [i \in 1..n |-> [x |-> d[i].x, y |-> peakY(i, j)]]],
      baseline |-> finalBaseline,
      baselineCorrectedData |-> [i \in 1..n |-> [x |-> d[i].x, y |-> correctedY(i)]],
      rSquared |-> XMax(0, rSquared),
      adjustedRSquared |-> XMax(0, adjustedRSquared),
      rmse |-> XSqrt(XDivInt(sumSquaredResiduals, n)),
      chiSquared |-> chi,
      reducedChiSquared |-> XDivInt(chi, dof),
      aic |-> XAdd(2 * p * Scale, nLn),
      bic |-> XAdd(p * LnRatio(n, 1), nLn),
      parameters |-> optimizedParams,
      iterations |-> its,
      converged |-> conv,
      hasOptimizedBaseline |-> hasOpt,
      optimizedBaseline |-> optimizedBaseline,
      baselineParams |-> IF hasOpt THEN baselineParamsOf(comps, opts, ps) ELSE <<>>]


\* ------------------------------------------------------------------------
\* Inputs
\* ------------------------------------------------------------------------
Methods == {"none", "linear", "rolling_ball", "manual"}

Pt(px, py) == [x |-> px, y |-> py]

DataSets ==
  { <<>>,
    <<Pt(0, 0), Pt(100, 100), Pt(200, 0)>>,
    <<Pt(0, 0), Pt(100, 0 - 100), Pt(200, 0)>>,
    <<Pt(0, 20), Pt(100, 120), Pt(200, 20), Pt(300, 20)>>,
    \* a single sample, which one peak at x = 1 of height 1 reproduces exactly
    <<Pt(100, 100)>> }

Comp(i, prof, c, a, w, wt) ==
  [id |-> i, profile |-> prof, center |-> c, amplitude |-> a, width |-> w,
   weight |-> wt, sigma |-> 0, gamma |-> 0]

ComponentLists ==
  { <<>>,
    <<Comp(1, "gaussian", 100, 100, 100, 100)>>,
    <<Comp(1, "lorentzian", 100, 200, 100, 50)>>,
    <<Comp(1, "voigt", 100, 100, 150, 0)>>,
    <<Comp(1, "gaussian", 100, 60, 100, 100), Comp(2, "lorentzian", 200, 40, 100, 100)>>,
    \* a component that carries sigma = 1.0 beside its width
    <<[Comp(1, "gaussian", 100, 100, 100, 100) EXCEPT !.sigma = Scale]>> }

\* the supplied baseline curves, index-aligned with the data
BaselineCurves(d) ==
  { [i \in 1..Len(d) |-> Pt(d[i].x, 0)], [i \in 1..Len(d) |-> Pt(d[i].x, 20)] }

LMOptions(mi, tolInv, initExp, upExp, downExp) ==
  [maxIterations |-> mi, tolInv |-> tolInv, lambdaInitExp |-> initExp,
   lambdaUpExp |-> upExp, lambdaDownExp |-> downExp]

\* what fitPeaks passes: { maxIterations, tolerance: 1e-8 }
FitOptions(mi) ==
  LMOptions(mi, FitTolInv, DefaultLambdaInitExp, DefaultLambdaUpExp, DefaultLambdaDownExp)

\* options of a direct call of the exported optimizer
DirectOptions ==
  { LMOptions(mi, 2, DefaultLambdaInitExp, DefaultLambdaUpExp, DefaultLambdaDownExp) : mi \in 0..MaxIter } \cup
  { LMOptions(mi, 1, 9, DefaultLambdaUpExp, DefaultLambdaDownExp) : mi \in 0..MaxIter } \cup
  { LMOptions(mi, FitTolInv, DefaultLambdaInitExp, 14, DefaultLambdaDownExp) : mi \in 0..MaxIter }

\* ------------------------------------------------------------------------
\* Control panel: the baseline tab
\* ------------------------------------------------------------------------
\* the method select: onBaselineChange({ ...baseline, method })
SetMethod ==
  /\ pc = "idle"
  /\ \E m \in Methods :
       /\ m # baselineOptions.method
       /\ baselineOptions' = [baselineOptions EXCEPT !.method = m]
  /\ UNCHANGED <<callVars, pc, lmVars, fitResult>>
  /\ UNCHANGED <<call, ui>>

\* the Optimize Simultaneously switch, rendered unless the method is none or manual
SetOptimizeSimultaneously ==
  /\ pc = "idle"
  /\ baselineOptions.method # "none" /\ baselineOptions.method # "manual"
  /\ baselineOptions' = [baselineOptions EXCEPT
                           !.optimizeSimultaneously = ~baselineOptions.optimizeSimultaneously]
  /\ UNCHANGED <<callVars, pc, lmVars, fitResult>>
  /\ UNCHANGED <<call, ui>>

\* ------------------------------------------------------------------------
\* fitPeaks and the direct call of levenbergMarquardt
\* ------------------------------------------------------------------------
\* levenbergMarquardt up to the loop: initial residuals and chi-squared
LMEnter(d, comps, opts, yTarget, initialParams, lmOpts) ==
  LET yPred == modelFuncOf(comps, opts, Ys(d), Xs(d), initialParams)
      res == ResidualsOf(yTarget, yPred)
  IN /\ y' = yTarget
     /\ params' = initialParams
     /\ lambdaExp' = lmOpts.lambdaInitExp
     /\ residuals' = res
     /\ chiSquared' = ChiSquaredOf(res)
     /\ chiBefore' = ChiSquaredOf(res)
     /\ converged' = FALSE
     /\ iterations' = 0
     /\ iter' = 0
     /\ lastStep' = "none"
     /\ passes' = 0
     /\ options' = lmOpts

\* fitPeaks with an empty dataset or no component
FitPeaksDegenerate ==
  /\ pc = "idle"
  /\ \E d \in DataSets, comps \in ComponentLists :
       /\ Len(d) = 0 \/ Len(comps) = 0
       /\ \E bl \in BaselineCurves(d), mi \in 0..MaxIter :
            /\ data' = d
            /\ components' = comps
            /\ baseline' = bl
            /\ options' = FitOptions(mi)
            /\ caller' = "fitPeaks"
            /\ fitResult' = EmptyResult(comps)
            /\ pc' = "done"
  /\ UNCHANGED <<baselineOptions, lmVars>>
  /\ UNCHANGED <<call, ui>>

\* fitPeaks up to its call of levenbergMarquardt
FitPeaksCall ==
  /\ pc = "idle"
  /\ \E d \in DataSets, comps \in ComponentLists :
       /\ ~(Len(d) = 0 \/ Len(comps) = 0)
       /\ \E bl \in BaselineCurves(d), mi \in 0..MaxIter :
            /\ data' = d
            /\ components' = comps
            /\ baseline' = bl
            /\ caller' = "fitPeaks"
            /\ LMEnter(d, comps, baselineOptions, targetYValsOf(d, bl, baselineOptions),
                       initialParamsOf(comps, baselineOptions), FitOptions(mi))
            /\ pc' = "lm"
  /\ UNCHANGED <<baselineOptions, fitResult>>
  /\ UNCHANGED <<call, ui>>

\* levenbergMarquardt called with options of the caller's choice, on the model
\* function and target of a fit
DirectCall ==
  /\ pc = "idle"
  /\ \E d \in DataSets, comps \in ComponentLists :
       /\ ~(Len(d) = 0 \/ Len(comps) = 0)
       /\ \E bl \in BaselineCurves(d), lmOpts \in DirectOptions :
            /\ data' = d
            /\ components' = comps
            /\ baseline' = bl
            /\ caller' = "direct"
            /\ LMEnter(d, comps, baselineOptions, targetYValsOf(d, bl, baselineOptions),
                       initialParamsOf(comps, baselineOptions), lmOpts)
            /\ pc' = "lm"
  /\ UNCHANGED <<baselineOptions, fitResult>>
  /\ UNCHANGED <<call, ui>>

\* fitPeaks after levenbergMarquardt returned
FitPeaksReturn ==
  /\ pc = "lmret"
  /\ caller = "fitPeaks"
  /\ fitResult' = FitResultOf(components, baselineOptions, data, baseline, params,
                              chiSquared, iterations, converged)
  /\ pc' = "done"
  /\ UNCHANGED <<baselineOptions, callVars, lmVars>>
  /\ UNCHANGED <<call, ui>>

DirectReturn ==
  /\ pc = "lmret"
  /\ caller = "direct"
  /\ pc' = "done"
  /\ UNCHANGED <<baselineOptions, callVars, lmVars, fitResult>>
  /\ UNCHANGED <<call, ui>>

\* ------------------------------------------------------------------------
\* Specification
\* ------------------------------------------------------------------------
Init ==
  /\ baselineOptions = [method |-> "none", optimizeSimultaneously |-> FALSE,
                        slope |-> 0, intercept |-> 0, radius |-> 10 * Scale]
  /\ data = <<>>
  /\ components = <<>>
  /\ baseline = <<>>
  /\ caller = "none"
  /\ options = FitOptions(0)
  /\ pc = "idle"
  /\ y = <<>>
  /\ params = <<>>
  /\ lambdaExp = DefaultLambdaInitExp
  /\ residuals = <<>>
  /\ chiSquared = 0
  /\ chiBefore = 0
  /\ converged = FALSE
  /\ iterations = 0
  /\ iter = 0
  /\ lastStep = "none"
  /\ passes = 0
  /\ fitResult = NoResult
  /\ call = NoCall
  /\ ui = [rawData |-> <<>>, components |-> <<>>, fitResult |-> NoResult,
           isLoading |-> FALSE, timer |-> NoTimer, events |-> 0]

Next ==
  \/ SetMethod
  \/ SetOptimizeSimultaneously
  \/ FitPeaksDegenerate
  \/ FitPeaksCall
  \/ DirectCall
  \/ LMLoopEnd
  \/ LMSingular
  \/ LMAccept
  \/ LMReject
  \/ FitPeaksReturn
  \/ DirectReturn

Spec == Init /\ [][Next]_vars


\* ------------------------------------------------------------------------
\* Baseline estimators
\* ------------------------------------------------------------------------
\* a / b of two fixed-point values, by the IEEE rules; a finite quotient is
\* rounded down to the unit
XDiv(a, b) ==
  IF a = NaN \/ b = NaN THEN NaN
  ELSE IF ~IsNum(a) THEN (IF ~IsNum(b) THEN NaN
                          ELSE IF (a > 0) = (b >= 0) THEN PosInf ELSE NegInf)
  ELSE IF ~IsNum(b) THEN 0
  ELSE IF b = 0 THEN (IF a = 0 THEN NaN ELSE IF a > 0 THEN PosInf ELSE NegInf)
  ELSE IF b > 0 THEN (a * Scale) \div b
  ELSE ((0 - a) * Scale) \div (0 - b)

ZeroCurve(samples) == [k \in 1..Len(samples) |-> [x |-> samples[k].x, y |-> 0]]

\* linearBaseline(data) with slope and intercept left out: the line through
\* the first and the last sample
linearBaselineAuto(samples) ==
  IF Len(samples) < 2 THEN ZeroCurve(samples)
  ELSE LET x1 == samples[1].x
           y1 == samples[1].y
           x2 == samples[Len(samples)].x
           y2 == samples[Len(samples)].y
           m == XDiv(y2 - y1, x2 - x1)
           b == XSub(y1, XMul(m, x1))
       IN [k \in 1..Len(samples) |->
             [x |-> samples[k].x, y |-> XAdd(XMul(m, samples[k].x), b)]]

\* linearBaseline(data, slope, intercept)
linearBaselineManual(samples, slope, intercept) ==
  IF Len(samples) < 2 THEN ZeroCurve(samples)
  ELSE [k \in 1..Len(samples) |->
          [x |-> samples[k].x, y |-> XAdd(XMul(slope, samples[k].x), intercept)]]

\* [...points].sort((a, b) => a.x - b.x): a stable sort by x
RECURSIVE InsertByX(_, _)
InsertByX(sorted, pt) ==
  IF sorted = <<>> THEN <<pt>>
  ELSE IF sorted[Len(sorted)].x <= pt.x THEN Append(sorted, pt)
  ELSE Append(InsertByX(SubSeq(sorted, 1, Len(sorted) - 1), pt), sorted[Len(sorted)])

\* the points as they were supplied
KeepOrder(points) == points

RECURSIVE SortByX(_)
SortByX(points) ==
  IF points = <<>> THEN <<>>
  ELSE InsertByX(SortByX(SubSeq(points, 1, Len(points) - 1)), points[Len(points)])

\* the first segment i (1-based) with px[i] <= x <= px[i + 1], or 0
SegmentOf(px, x) ==
  LET hits == {i \in 1..(Len(px) - 1) : x >= px[i] /\ x <= px[i + 1]}
  IN IF hits = {} THEN 0 ELSE CHOOSE i \in hits : \A j \in hits : i <= j

linearInterpolate(px, py, x) ==
  LET n == Len(px)
      i == SegmentOf(px, x)
  IN IF x <= px[1] THEN py[1]
     ELSE IF x >= px[n] THEN py[n]
     ELSE IF i = 0 THEN py[n]
     ELSE LET t == XDiv(x - px[i], px[i + 1] - px[i])
          IN XAdd(py[i], XMul(t, py[i + 1] - py[i]))


\* cubicSplineInterpolate: the arrays of the natural spline, by 0-based index
SplineH(px, i) == px[i + 2] - px[i + 1]

\* [l, mu, z] at index i of the forward sweep
RECURSIVE SplineSweep(_, _, _)
SplineSweep(px, py, i) ==
  IF i < 1 \/ i > Len(px) - 2 THEN [l |-> Scale, mu |-> 0, z |-> 0]
  ELSE LET prev == SplineSweep(px, py, i - 1)
           alpha == XSub(XMul(XDiv(3 * Scale, SplineH(px, i)), py[i + 2] - py[i + 1]),
                         XMul(XDiv(3 * Scale, SplineH(px, i - 1)), py[i + 1] - py[i]))
           l == XSub(2 * (px[i + 2] - px[i]), XMul(SplineH(px, i - 1), prev.mu))
       IN [l |-> l,
           mu |-> XDiv(SplineH(px, i), l),
           z |-> XDiv(XSub(alpha, XMul(SplineH(px, i - 1), prev.z)), l)]

RECURSIVE SplineC(_, _, _)
SplineC(px, py, j) ==
  IF j >= Len(px) - 1 THEN 0
  ELSE LET sw == SplineSweep(px, py, j)
       IN XSub(sw.z, XMul(sw.mu, SplineC(px, py, j + 1)))

cubicSplineInterpolate(px, py, x) ==
  LET n == Len(px)
      i == SegmentOf(px, x)
      c(j) == SplineC(px, py, j)
      b(j) == XSub(XDiv(py[j + 2] - py[j + 1], SplineH(px, j)),
                   XDiv(XMul(SplineH(px, j), XAdd(c(j + 1), XTimesInt(c(j), 2))), 3 * Scale))
      d(j) == XDiv(XSub(c(j + 1), c(j)), 3 * SplineH(px, j))
  IN IF n < 3 THEN linearInterpolate(px, py, x)
     ELSE IF x <= px[1]
       THEN LET slope == XDiv(py[2] - py[1], px[2] - px[1])
            IN XAdd(py[1], XMul(slope, x - px[1]))
     ELSE IF x >= px[n]
       THEN LET slope == XDiv(py[n] - py[n - 1], px[n] - px[n - 1])
            IN XAdd(py[n], XMul(slope, x - px[n]))
     ELSE IF i = 0 THEN py[n]
     ELSE LET dx == x - px[i]
          IN XAdd(XAdd(XAdd(py[i], XMul(b(i - 1), dx)), XMul(XMul(c(i - 1), dx), dx)),
                  XMul(XMul(XMul(d(i - 1), dx), dx), dx))

\* manualBaseline(data, points, interp)
manualBaseline(samples, points, interp) ==
  IF Len(points) < 2 THEN ZeroCurve(samples)
  ELSE LET sortedPoints == SortByX(points)
           px == Xs(sortedPoints)
           py == Ys(sortedPoints)
       IN [k \in 1..Len(samples) |->
             [x |-> samples[k].x,
              y |-> IF interp = "cubic" /\ Len(sortedPoints) >= 3
                    THEN cubicSplineInterpolate(px, py, samples[k].x)
                    ELSE linearInterpolate(px, py, samples[k].x)]]


\* shirleyBaseline: the baseline before the loop, linear between the end
\* points by index
ShirleyInit(yv) ==
  LET n == Len(yv)
      line == [k \in 1..n |->
                 LET t == XDiv((k - 1) * Scale, (n - 1) * Scale)
                 IN XAdd(XMul(yv[1], Scale - t), XMul(yv[n], t))]
  IN SubSeq(line, 1, n)

\* the sum of max(0, y[j] - baseline[j]) over from <= j <= n (1-based)
RECURSIVE ShirleyArea(_, _, _)
ShirleyArea(yv, bl, from) ==
  IF from > Len(yv) THEN 0
  ELSE LET above == XSub(yv[from], bl[from])
       IN XAdd(IF above > 0 THEN above ELSE 0, ShirleyArea(yv, bl, from + 1))

ShirleyNew(yv, bl) ==
  LET n == Len(yv)
      totalArea == ShirleyArea(yv, bl, 1)
      newBaseline == [k \in 1..n |->
                        LET ratio == XDiv(ShirleyArea(yv, bl, k), totalArea)
                        IN XAdd(yv[n], XMul(XSub(yv[1], yv[n]), ratio))]
  \* an array of n numbers
  IN SubSeq(newBaseline, 1, n)

RECURSIVE MaxAbsDiff(_, _, _)
MaxAbsDiff(a, b, from) ==
  IF from > Len(a) THEN 0
  ELSE LET rest == MaxAbsDiff(a, b, from + 1)
           here == Abs(XSub(a[from], b[from]))
       IN IF here > rest THEN here ELSE rest

\* maxChange < tolerance * (|yStart - yEnd| + 1e-10), the tolerance given by
\* its inverse: the 1e-10 is a positive amount below one unit
ShirleyConverged(yv, maxChange, tolInv) ==
  maxChange * tolInv <= Abs(XSub(yv[1], yv[Len(yv)]))

\* a pass that divides by the total area without looking at it
ShirleyStepUnguarded(yv, bl, it, maxIterations, tolInv) ==
  IF it >= maxIterations THEN [baseline |-> bl, iter |-> it, stop |-> "maxIterations"]
  ELSE LET newBaseline == ShirleyNew(yv, bl)
           maxChange == MaxAbsDiff(newBaseline, bl, 1)
       IN [baseline |-> newBaseline, iter |-> it + 1,
           stop |-> IF maxChange # NaN /\ ShirleyConverged(yv, maxChange, tolInv)
                    THEN "tolerance" ELSE "none"]

\* one pass of the loop from (baseline, iter): the state after it and why the
\* loop stopped, if it did
ShirleyStep(yv, bl, it, maxIterations, tolInv) ==
  IF it >= maxIterations THEN [baseline |-> bl, iter |-> it, stop |-> "maxIterations"]
  ELSE IF ShirleyArea(yv, bl, 1) = 0 THEN [baseline |-> bl, iter |-> it, stop |-> "zeroArea"]
  ELSE LET newBaseline == ShirleyNew(yv, bl)
           maxChange == MaxAbsDiff(newBaseline, bl, 1)
       IN [baseline |-> newBaseline, iter |-> it + 1,
           stop |-> IF ShirleyConverged(yv, maxChange, tolInv) THEN "tolerance" ELSE "none"]

RECURSIVE ShirleyLoop(_, _, _, _, _)
ShirleyLoop(yv, bl, it, maxIterations, tolInv) ==
  LET st == ShirleyStep(yv, bl, it, maxIterations, tolInv)
  IN IF st.stop # "none" THEN st.baseline
     ELSE ShirleyLoop(yv, st.baseline, st.iter, maxIterations, tolInv)

shirleyBaseline(samples, maxIterations, tolInv) ==
  IF Len(samples) < 3 THEN ZeroCurve(samples)
  ELSE Zip(Xs(samples),
           ShirleyLoop(Ys(samples), ShirleyInit(Ys(samples)), 0, maxIterations, tolInv))

\* Math.pow(x, i) for a count i
RECURSIVE XPow(_, _)
XPow(x, i) == IF i = 0 THEN Scale ELSE XMul(XPow(x, i - 1), x)

RECURSIVE PolyValue(_, _, _)
\* the sum of coeffs[i] * x^i over i < upto (0-based)
PolyValue(coeffs, x, upto) ==
  IF upto = 0 THEN 0
  ELSE XAdd(PolyValue(coeffs, x, upto - 1), XMul(coeffs[upto], XPow(x, upto - 1)))

\* calculateBaseline: the indices (1-based) of the samples in the calc range
InRange(x, opts) ==
  /\ (opts.calcRangeMin = Undefined \/ x >= opts.calcRangeMin)
  /\ (opts.calcRangeMax = Undefined \/ x <= opts.calcRangeMax)

hasRangeOf(opts) == opts.calcRangeMin # Undefined \/ opts.calcRangeMax # Undefined

RECURSIVE IndicesInRange(_, _, _)
IndicesInRange(samples, opts, upto) ==
  IF upto = 0 THEN <<>>
  ELSE LET before == IndicesInRange(samples, opts, upto - 1)
       IN IF InRange(samples[upto].x, opts) THEN Append(before, upto) ELSE before

rangeIndicesOf(samples, opts) ==
  LET inRange == IndicesInRange(samples, opts, Len(samples))
  IN IF ~hasRangeOf(opts) THEN <<>>
     ELSE IF Len(inRange) < 2 THEN [k \in 1..Len(samples) |-> k]
     ELSE inRange

rangeDataOf(samples, opts) ==
  LET idx == rangeIndicesOf(samples, opts)
  IN IF ~hasRangeOf(opts) THEN samples ELSE [k \in 1..Len(idx) |-> samples[idx[k]]]

\* the switch on options.method
rangeBaselineOf(rangeData, opts) ==
  CASE opts.method = "linear" ->
         IF opts.autoBaseline = FALSE /\ opts.slope # Undefined /\ opts.intercept # Undefined
         THEN linearBaselineManual(rangeData, opts.slope, opts.intercept)
         ELSE linearBaselineAuto(rangeData)
    [] opts.method = "polynomial" /\ opts.autoBaseline = FALSE ->
         [k \in 1..Len(rangeData) |->
            [x |-> rangeData[k].x,
             y |-> PolyValue(opts.coeffs, rangeData[k].x, Len(opts.coeffs))]]
    [] opts.method = "rolling_ball" ->
         rollingBallBaseline(rangeData,
                             IF opts.radius = Undefined \/ opts.radius = 0 \/ opts.radius = NaN
                             THEN 10 * Scale ELSE opts.radius)
    [] opts.method = "shirley" ->
         shirleyBaseline(rangeData,
                         IF opts.shirleyIterations = Undefined \/ opts.shirleyIterations = 0
                         THEN 50 ELSE opts.shirleyIterations,
                         IF opts.shirleyTolInv = Undefined THEN 100000 ELSE opts.shirleyTolInv)
    [] opts.method = "manual" ->
         IF Len(opts.manualPoints) >= 2
         THEN manualBaseline(rangeData, opts.manualPoints,
                             IF opts.manualInterp = "" THEN "linear" ELSE opts.manualInterp)
         ELSE ZeroCurve(rangeData)
    [] OTHER -> ZeroCurve(rangeData)

\* a flat extension that gives both sides the last in-range value
ExtendFlatFromRight(samples, rangeIndices, rangeBaseline) ==
  [i \in 1..Len(samples) |->
     [x |-> samples[i].x,
      y |-> IF \E k \in 1..Len(rangeIndices) : rangeIndices[k] = i
            THEN rangeBaseline[CHOOSE k \in 1..Len(rangeIndices) : rangeIndices[k] = i].y
            ELSE rangeBaseline[Len(rangeBaseline)].y]]

\* the flat extension: the walk over data with rangeIdx
ExtendFlat(samples, rangeIndices, rangeBaseline) ==
  LET leftBoundaryY == IF Len(rangeBaseline) > 0 THEN rangeBaseline[1].y ELSE 0
      rightBoundaryY == IF Len(rangeBaseline) > 0
                        THEN rangeBaseline[Len(rangeBaseline)].y ELSE 0
  IN [i \in 1..Len(samples) |->
        [x |-> samples[i].x,
         y |-> IF \E k \in 1..Len(rangeIndices) : rangeIndices[k] = i
               THEN rangeBaseline[CHOOSE k \in 1..Len(rangeIndices) : rangeIndices[k] = i].y
               ELSE IF i < rangeIndices[1] THEN leftBoundaryY
               ELSE rightBoundaryY]]

calculateBaseline(samples, opts) ==
  IF opts.method = "none" THEN ZeroCurve(samples)
  ELSE LET rangeIndices == rangeIndicesOf(samples, opts)
           rangeBaseline == rangeBaselineOf(rangeDataOf(samples, opts), opts)
       IN IF ~hasRangeOf(opts) \/ Len(rangeIndices) = Len(samples) THEN rangeBaseline
          ELSE ExtendFlat(samples, rangeIndices, rangeBaseline)


\* ------------------------------------------------------------------------
\* Calls of the library's functions on their own.  The functions keep no
\* state between calls, so a behaviour follows one call from its arguments to
\* its result.
\* ------------------------------------------------------------------------
fitVars == <<baselineOptions, callVars, pc, lmVars, fitResult, ui>>

LibraryData ==
  { <<>>,
    <<Pt(0, 50)>>,
    <<Pt(0, 0), Pt(100, 100)>>,
    <<Pt(100, 0), Pt(100, 100)>>,
    <<Pt(0, 100), Pt(100, 300), Pt(200, 150), Pt(300, 50)>>,
    <<Pt(0, 20), Pt(100, 120), Pt(200, 60), Pt(300, 20), Pt(400, 40)>>,
    \* not sorted by x
    <<Pt(200, 10), Pt(0, 50), Pt(100, 30), Pt(300, 0)>> }

ControlPoints ==
  { <<>>,
    <<Pt(0, 0)>>,
    <<Pt(0, 0), Pt(1000, 500)>>,
    <<Pt(1000, 500), Pt(0, 0)>>,
    <<Pt(100, 100), Pt(200, 300), Pt(300, 100)>>,
    <<Pt(300, 100), Pt(100, 100), Pt(200, 300)>>,
    \* two control points at the same x
    <<Pt(100, 0), Pt(200, 100), Pt(200, 300), Pt(300, 0)>>,
    <<Pt(100, 0), Pt(200, 300), Pt(200, 100), Pt(300, 0)>> }

NoOptions ==
  [method |-> "none", calcRangeMin |-> Undefined, calcRangeMax |-> Undefined,
   autoBaseline |-> TRUE, slope |-> Undefined, intercept |-> Undefined, coeffs |-> <<>>,
   radius |-> Undefined, shirleyIterations |-> Undefined, shirleyTolInv |-> Undefined,
   manualPoints |-> <<>>, manualInterp |-> ""]

MethodOptions ==
  { NoOptions,
    [NoOptions EXCEPT !.method = "linear"],
    [NoOptions EXCEPT !.method = "linear", !.autoBaseline = FALSE, !.slope = 50,
                      !.intercept = 10],
    [NoOptions EXCEPT !.method = "polynomial", !.autoBaseline = FALSE,
                      !.coeffs = <<10, 0, 1>>],
    [NoOptions EXCEPT !.method = "rolling_ball"],
    [NoOptions EXCEPT !.method = "rolling_ball", !.radius = Scale],
    [NoOptions EXCEPT !.method = "shirley", !.shirleyIterations = 1],
    [NoOptions EXCEPT !.method = "shirley", !.shirleyIterations = 2, !.shirleyTolInv = 10] } \cup
  { [NoOptions EXCEPT !.method = "manual", !.manualPoints = pts, !.manualInterp = interp] :
      pts \in {<<>>, <<Pt(0, 0)>>, <<Pt(100, 100), Pt(200, 300), Pt(300, 100)>>},
      interp \in {"", "cubic"} }

CalcRanges ==
  { <<Undefined, Undefined>>, <<100, Undefined>>, <<Undefined, 200>>, <<100, 300>>,
    <<100, 100>>, <<500, Undefined>> }

\* calculateBaseline(data, options)
CalculateBaselineCall ==
  /\ call = NoCall
  /\ \E d \in LibraryData, o \in MethodOptions, r \in CalcRanges :
       LET opts == [o EXCEPT !.calcRangeMin = r[1], !.calcRangeMax = r[2]]
       IN call' = [fn |-> "calculateBaseline", data |-> d, options |-> opts,
                   result |-> calculateBaseline(d, opts)]
  /\ UNCHANGED fitVars

\* removeOutliersZScore(data, threshold)
removeOutliersZScore(d, threshold) ==
  LET n == Len(d)
      mean == XDivInt(XSum(Ys(d)), n)
      std == XSqrt(XDivInt(XSum([k \in 1..n |-> XSq(XSub(d[k].y, mean))]), n))
      Keep(pt) == XLt(Abs(XDiv(XSub(pt.y, mean), std)), threshold)
  IN IF n < 3 THEN d
     ELSE IF std = 0 THEN d
     ELSE SelectSeq(d, Keep)

\* removeOutliersIQR(data, factor)
removeOutliersIQR(d, factor) ==
  LET n == Len(d)
      sorted == Xs(SortByX([k \in 1..n |-> Pt(d[k].y, 0)]))
      q1 == sorted[(n \div 4) + 1]
      q3 == sorted[((3 * n) \div 4) + 1]
      iqr == q3 - q1
      lowerBound == XSub(q1, XMul(factor, iqr))
      upperBound == XAdd(q3, XMul(factor, iqr))
      Keep(pt) == pt.y >= lowerBound /\ pt.y <= upperBound
  IN IF n < 4 THEN d ELSE SelectSeq(d, Keep)

\* processData, step 1
RemoveOutliers(processed, o) ==
  CASE o.outlierMethod = "zscore" -> removeOutliersZScore(processed, o.threshold)
    [] o.outlierMethod = "iqr" -> removeOutliersIQR(processed, o.threshold)
    [] OTHER -> processed

\* processData, step 2
Crop(processed, o) ==
  LET Keep(pt) == /\ (o.xMin = Undefined \/ pt.x >= o.xMin)
                  /\ (o.xMax = Undefined \/ pt.x <= o.xMax)
  IN IF o.xMin # Undefined \/ o.xMax # Undefined THEN SelectSeq(processed, Keep)
     ELSE processed

\* the y of one point of the new grid
ResampleAt(processed, x) ==
  LET n == Len(processed)
      i == CHOOSE k \in 1..n :
             /\ k = n \/ processed[k + 1].x >= x
             /\ \A j \in 1..k - 1 : processed[j + 1].x < x
  IN IF x <= processed[1].x
       THEN LET slope == XDiv(processed[2].y - processed[1].y,
                              processed[2].x - processed[1].x)
            IN XAdd(processed[1].y, XMul(slope, x - processed[1].x))
     ELSE IF x >= processed[n].x
       THEN LET slope == XDiv(processed[n].y - processed[n - 1].y,
                              processed[n].x - processed[n - 1].x)
            IN XAdd(processed[n].y, XMul(slope, x - processed[n].x))
     ELSE IF i < n
       THEN LET t == XDiv(x - processed[i].x, processed[i + 1].x - processed[i].x)
            IN XAdd(processed[i].y, XMul(t, processed[i + 1].y - processed[i].y))
     ELSE processed[n].y

\* processData, step 3; the grid ends at interpMax + interpolationStep * 0.001
Resample(processed, o) ==
  LET n == Len(processed)
      step == o.interpolationStep
      interpMin == IF o.xMin # Undefined THEN o.xMin ELSE processed[1].x
      interpMax == IF o.xMax # Undefined THEN o.xMax ELSE processed[n].x
      last == interpMax + step \div 1000
      count == IF last < interpMin THEN 0 ELSE ((last - interpMin) \div step) + 1
      newData == [k \in 1..count |->
                    LET x == interpMin + (k - 1) * step
                    IN [x |-> x, y |-> ResampleAt(processed, x)]]
  IN IF step # Undefined /\ step > 0 /\ n >= 2 THEN SubSeq(newData, 1, count)
     ELSE processed

\* savitzkyGolaySmooth(y, windowLength, polyOrder) for polyOrder 1: with the
\* window's abscissas symmetric about 0 the normal equations are diagonal and
\* coeffs[0] is the mean of the reflected window
savitzkyGolaySmooth(yv, windowLength, polyOrder) ==
  LET n == Len(yv)
      window == IF windowLength % 2 = 0 THEN windowLength + 1 ELSE windowLength
      halfWindow == window \div 2
      At0(j) == IF j < 0 THEN yv[(0 - j) + 1]
                ELSE IF j >= n THEN yv[(2 * n - j - 2) + 1]
                ELSE yv[j + 1]
      result == [k \in 1..n |->
                   XDivInt(XSum([w \in 1..window |-> At0((k - 1) - halfWindow + (w - 1))]),
                           window)]
  IN IF n < windowLength THEN yv ELSE SubSeq(result, 1, n)

\* processData, step 4
Smooth(processed, o) ==
  LET windowLength == IF o.windowLength = 0 THEN 11 ELSE o.windowLength
      polyOrder == IF o.polyOrder = 0 THEN 3 ELSE o.polyOrder
  IN IF o.smoothing /\ Len(processed) >= windowLength
     THEN Zip(Xs(processed), savitzkyGolaySmooth(Ys(processed), windowLength, polyOrder))
     ELSE processed

RECURSIVE MaxAbs(_)
\* Math.max(...y.map(Math.abs)) of a non-empty list
MaxAbs(yv) ==
  IF Len(yv) = 1 THEN Abs(yv[1])
  ELSE LET rest == MaxAbs(Tail(yv))
           here == Abs(yv[1])
       IN IF here = NaN \/ rest = NaN THEN NaN ELSE IF here > rest THEN here ELSE rest

\* processData, step 5
Normalize(processed, o) ==
  IF o.normalize /\ Len(processed) > 0 /\ XLt(0, MaxAbs(Ys(processed)))
  THEN [k \in 1..Len(processed) |->
          [x |-> processed[k].x, y |-> XDiv(processed[k].y, MaxAbs(Ys(processed)))]]
  ELSE processed

\* the steps of processData in the order of its code
Stages == <<"outliers", "crop", "resample", "smooth", "normalize">>

\* the steps with the crop ahead of the outlier removal
ApplyStageCropFirst(stage, processed, o) ==
  CASE stage = 1 -> Crop(processed, o)
    [] stage = 2 -> RemoveOutliers(processed, o)
    [] stage = 3 -> Resample(processed, o)
    [] stage = 4 -> Smooth(processed, o)
    [] stage = 5 -> Normalize(processed, o)

ApplyStage(stage, processed, o) ==
  CASE stage = 1 -> RemoveOutliers(processed, o)
    [] stage = 2 -> Crop(processed, o)
    [] stage = 3 -> Resample(processed, o)
    [] stage = 4 -> Smooth(processed, o)
    [] stage = 5 -> Normalize(processed, o)

ProcessingData ==
  { <<>>,
    <<Pt(0, 50), Pt(100, 150)>>,
    <<Pt(0, 0), Pt(100, 100), Pt(200, 0), Pt(300, 100), Pt(400, 0), Pt(500, 900)>> }

ProcessingOptions ==
  [outlierMethod : {"none", "zscore", "iqr"}, threshold : {2 * Scale},
   xMin : {Undefined, 300}, xMax : {Undefined, 500},
   interpolationStep : {Undefined, 0, 50},
   smoothing : BOOLEAN, windowLength : {3}, polyOrder : {1},
   normalize : BOOLEAN]

\* processData(data, options): let processed = [...data]
ProcessDataCall ==
  /\ call = NoCall
  /\ \E d \in ProcessingData, o \in ProcessingOptions :
       call' = [fn |-> "processData", data |-> d, options |-> o, processed |-> d, stage |-> 1]
  /\ UNCHANGED fitVars

\* the next step of processData; after the last one it returns processed
ProcessDataStage ==
  /\ call.fn = "processData"
  /\ call.stage <= Len(Stages)
  /\ call' = [call EXCEPT !.processed = ApplyStage(call.stage, call.processed, call.options),
                          !.stage = call.stage + 1]
  /\ UNCHANGED fitVars

Radii == {Scale, 150, 2 * Scale, 3 * Scale}

\* rollingBallBaseline(data, radius)
RollingBallCall ==
  /\ call = NoCall
  /\ \E d \in LibraryData \cup {<<Pt(0, 178), Pt(100, 178), Pt(200, 178)>>}, r \in Radii :
       call' = [fn |-> "rollingBallBaseline", data |-> d, radius |-> r,
                result |-> rollingBallBaseline(d, r)]
  /\ UNCHANGED fitVars

MaxShirleyIterations == 3

ShirleyTolerances == {1, 10, 100000}

\* shirleyBaseline(data, maxIterations, tolerance) up to its loop
ShirleyCall ==
  /\ call = NoCall
  /\ \E d \in LibraryData \cup {<<Pt(0, 100), Pt(100, 50), Pt(200, 100)>>},
        mi \in 0..MaxShirleyIterations, tolInv \in ShirleyTolerances :
       call' = [fn |-> "shirleyBaseline", data |-> d, maxIterations |-> mi, tolInv |-> tolInv,
                iter |-> 0,
                baseline |-> IF Len(d) < 3 THEN Ys(ZeroCurve(d)) ELSE ShirleyInit(Ys(d)),
                stop |-> IF Len(d) < 3 THEN "short" ELSE "none"]
  /\ UNCHANGED fitVars

\* one pass of the loop, or its end
ShirleyPass ==
  /\ call.fn = "shirleyBaseline"
  /\ call.stop = "none"
  /\ LET st == ShirleyStep(Ys(call.data), call.baseline, call.iter, call.maxIterations,
                           call.tolInv)
     IN call' = [call EXCEPT !.baseline = st.baseline, !.iter = st.iter, !.stop = st.stop]
  /\ UNCHANGED fitVars

\* manualBaseline(data, points, interp)
ManualBaselineCall ==
  /\ call = NoCall
  /\ \E d \in {<<>>, [k \in 1..13 |-> Pt((k - 3) * 50, 0)]}, pts \in ControlPoints,
        interp \in {"linear", "cubic"} :
       call' = [fn |-> "manualBaseline", data |-> d, points |-> pts, interp |-> interp,
                result |-> manualBaseline(d, pts, interp)]
  /\ UNCHANGED fitVars

\* whittakerSmooth: the five bands of the system, row by row (rows 1-based)
whittakerBands(n, w, lambda) ==
  LET L(k) == XTimesInt(lambda, k)
      Row(i) ==
        IF i = 1 THEN [a |-> 0, b |-> 0, c |-> XAdd(w[i], lambda), d |-> L(-2), e |-> lambda]
        ELSE IF i = 2
          THEN [a |-> 0, b |-> L(-2), c |-> XAdd(w[i], L(5)), d |-> L(-4), e |-> lambda]
        ELSE IF i = n - 1
          THEN [a |-> lambda, b |-> L(-4), c |-> XAdd(w[i], L(5)), d |-> L(-2), e |-> 0]
        ELSE IF i = n
          THEN [a |-> lambda, b |-> L(-2), c |-> XAdd(w[i], lambda), d |-> 0, e |-> 0]
        ELSE [a |-> lambda, b |-> L(-4), c |-> XAdd(w[i], L(6)), d |-> L(-4), e |-> lambda]
  IN [i \in 1..n |-> Row(i)]

\* whittakerSmooth(y, w, lambda) up to the call of the solver, as aslsBaseline
\* calls it: weights 1, then p or 1 - p
WhittakerAssemble ==
  /\ call = NoCall
  /\ \E d \in LibraryData \cup {<<Pt(0, 0), Pt(100, 100), Pt(200, 200)>>},
        lambda \in {Scale, 100000 * Scale}, p \in {0, 1} :
       LET n == Len(d)
           w == [k \in 1..n |-> IF p = 0 THEN Scale ELSE IF k % 2 = 0 THEN p ELSE Scale - p]
       IN /\ n >= 3
          /\ call' = [fn |-> "whittakerSmooth", y |-> Ys(d), w |-> w, lambda |-> lambda,
                      bands |-> whittakerBands(n, w, lambda),
                      rhs |-> [k \in 1..n |-> XMul(w[k], d[k].y)]]
  /\ UNCHANGED fitVars

\* calculatePeak(x, component) for one component, at its center or beside it
CalculatePeakCall ==
  /\ call = NoCall
  /\ \E component \in [id : {1}, profile : {"gaussian", "lorentzian", "voigt"},
                        center : {0, 150}, amplitude : {0, 100, 250}, width : {0, 1, 50},
                        weight : {Undefined, 0, 50, 100, 200}, sigma : {0, 1}, gamma : {0, 2}],
        dx \in {0, 50} :
       call' = [fn |-> "calculatePeak", component |-> component, x |-> component.center + dx,
                result |-> calculatePeak(component.center + dx, component)]
  /\ UNCHANGED fitVars

\* ------------------------------------------------------------------------
\* Peak initializers
\* ------------------------------------------------------------------------
\* Math.max(...values) and Math.min(...values) of a non-empty list
MaxOf(values) ==
  CHOOSE v \in {values[i] : i \in DOMAIN values} : \A i \in DOMAIN values : values[i] <= v
MinOf(values) ==
  CHOOSE v \in {values[i] : i \in DOMAIN values} : \A i \in DOMAIN values : v <= values[i]

\* evenly spaced peaks numbered from the right end of the range
initEvenlySpacedFromRight(samples, nPeaks, profile) ==
  IF Len(samples) = 0 \/ nPeaks < 1 THEN <<>>
  ELSE LET xMin == MinOf(Xs(samples))
           xMax == MaxOf(Xs(samples))
           xRange == IF xMax - xMin = 0 THEN Scale ELSE xMax - xMin
           yMax == MaxOf(Ys(samples))
           yMin == MinOf(Ys(samples))
           perPeak == (yMax - yMin) \div nPeaks
           half == yMax \div 2
           baseAmplitude == IF perPeak >= half THEN perPeak ELSE half
           defaultWidth == xRange \div (4 * nPeaks)
       IN [i \in 1..nPeaks |->
             Comp(i, profile, xMin + ((nPeaks + 1 - i) * xRange) \div (nPeaks + 1),
                  baseAmplitude, defaultWidth, Scale)]

initEvenlySpaced(samples, nPeaks, profile) ==
  IF Len(samples) = 0 \/ nPeaks < 1 THEN <<>>
  ELSE LET xMin == MinOf(Xs(samples))
           xMax == MaxOf(Xs(samples))
           xRange == IF xMax - xMin = 0 THEN Scale ELSE xMax - xMin
           yMax == MaxOf(Ys(samples))
           yMin == MinOf(Ys(samples))
           perPeak == (yMax - yMin) \div nPeaks
           half == yMax \div 2
           baseAmplitude == IF perPeak >= half THEN perPeak ELSE half
           defaultWidth == xRange \div (4 * nPeaks)
       IN [i \in 1..nPeaks |->
             Comp(i, profile, xMin + (i * xRange) \div (nPeaks + 1), baseAmplitude,
                  defaultWidth, Scale)]

estimateWidth(samples, center) ==
  LET n == Len(samples)
      xRange == MaxOf(Xs(samples)) - MinOf(Xs(samples))
      dist(i) == Abs(samples[i].x - center)
      centerIdx == CHOOSE i \in 1..n :
                     /\ \A j \in 1..n : dist(i) <= dist(j)
                     /\ \A j \in 1..(i - 1) : dist(j) > dist(i)
      centerY == samples[centerIdx].y
      below(i) == 2 * samples[i].y <= centerY
      lefts == {i \in 1..(centerIdx - 1) : below(i)}
      rights == {i \in (centerIdx + 1)..n : below(i)}
      leftWidth == IF lefts = {} THEN xRange \div 20
                   ELSE center - samples[CHOOSE i \in lefts : \A j \in lefts : j <= i].x
      rightWidth == IF rights = {} THEN xRange \div 20
                    ELSE samples[CHOOSE i \in rights : \A j \in rights : i <= j].x - center
      floor == (xRange * 10) \div n
  IN IF leftWidth + rightWidth >= floor THEN leftWidth + rightWidth ELSE floor

initWithGMM(samples, nPeaks, profile) ==
  LET n == Len(samples)
      yv == Ys(samples)
      xv == Xs(samples)
  IN IF n < 3 \/ nPeaks < 1 THEN initEvenlySpaced(samples, nPeaks, profile)
     ELSE IF MaxOf(yv) - MinOf(yv) = 0 THEN initEvenlySpaced(samples, nPeaks, profile)
     ELSE
       LET yRange == MaxOf(yv) - MinOf(yv)
           \* the valley walk stops after the first sample higher than yv[i]
           leftStop(i) == LET hi == {j \in 1..(i - 1) : yv[j] > yv[i]}
                          IN IF hi = {} THEN 0 ELSE CHOOSE j \in hi : \A k \in hi : k <= j
           rightStop(i) == LET hi == {j \in (i + 1)..n : yv[j] > yv[i]}
                           IN IF hi = {} THEN n + 1 ELSE CHOOSE j \in hi : \A k \in hi : j <= k
           leftValley(i) == MinOf([j \in 1..(i - leftStop(i)) |-> yv[leftStop(i) + j]])
           rightValley(i) == MinOf([j \in 1..(rightStop(i) - i) |-> yv[i + j - 1]])
           prominence(i) == yv[i] - (IF leftValley(i) >= rightValley(i) THEN leftValley(i)
                                    ELSE rightValley(i))
           peaks == {i \in 2..(n - 1) :
                       /\ yv[i] > yv[i - 1] /\ yv[i] > yv[i + 1]
                       /\ prominence(i) * 20 > yRange}
           byProminence(i, j) ==
             prominence(i) > prominence(j) \/ (prominence(i) = prominence(j) /\ i < j)
           selectedPeaks ==
             {i \in peaks : Cardinality({j \in peaks : j # i /\ byProminence(j, i)}) < nPeaks}
           \* Array.prototype.sort is stable: equal x keep the prominence order
           byX(i, j) == xv[i] < xv[j] \/ (xv[i] = xv[j] /\ byProminence(i, j))
           found == [k \in 1..Cardinality(selectedPeaks) |->
                       CHOOSE i \in selectedPeaks :
                         Cardinality({j \in selectedPeaks : j # i /\ byX(j, i)}) = k - 1]
           fromPeaks == [k \in 1..Len(found) |->
                           Comp(k, profile, xv[found[k]], yv[found[k]],
                                estimateWidth(samples, xv[found[k]]), Scale)]
       IN IF Len(found) < nPeaks
          THEN LET evenlySpaced == initEvenlySpaced(samples, nPeaks - Len(found), profile)
                   result == fromPeaks \o [k \in 1..Len(evenlySpaced) |->
                                             [evenlySpaced[k] EXCEPT !.id = Len(found) + k]]
                   byCenter(i, j) == result[i].center < result[j].center
                                       \/ (result[i].center = result[j].center /\ i < j)
                   order == [k \in 1..Len(result) |->
                               CHOOSE i \in DOMAIN result :
                                 Cardinality({j \in DOMAIN result :
                                                j # i /\ byCenter(j, i)}) = k - 1]
               IN [k \in 1..Len(result) |-> [result[order[k]] EXCEPT !.id = k]]
          ELSE fromPeaks

\* initWithGMM or initEvenlySpaced on one dataset
InitializerCall ==
  /\ call = NoCall
  /\ \E samples \in LibraryData \cup
                     { <<Pt(0, 0), Pt(100, 500), Pt(200, 100), Pt(300, 800), Pt(400, 0)>>,
                       <<Pt(0, 0), Pt(100, 300), Pt(200, 0), Pt(300, 300), Pt(400, 200),
                         Pt(500, 210), Pt(600, 0)>>,
                       <<Pt(0, 70), Pt(100, 70), Pt(200, 70)>> },
        nPeaks \in (0 - 1)..4,
        profile \in {"gaussian", "lorentzian", "voigt"},
        fn \in {"initWithGMM", "initEvenlySpaced"} :
       call' = [fn |-> fn, data |-> samples, nPeaks |-> nPeaks, profile |-> profile,
                result |-> IF fn = "initWithGMM" THEN initWithGMM(samples, nPeaks, profile)
                           ELSE initEvenlySpaced(samples, nPeaks, profile)]
  /\ UNCHANGED fitVars

PureNext ==
  \/ CalculateBaselineCall
  \/ InitializerCall
  \/ CalculatePeakCall
  \/ ProcessDataCall
  \/ ProcessDataStage
  \/ RollingBallCall
  \/ ShirleyCall
  \/ ShirleyPass
  \/ ManualBaselineCall
  \/ WhittakerAssemble

PureSpec == Init /\ [][PureNext]_vars


\* ------------------------------------------------------------------------
\* The page: the React state of Index.tsx and the handlers of Index.tsx and
\* ControlPanel.tsx.  ui is [rawData, components, fitResult, isLoading,
\* timer, events]; timer is the pending setTimeout callback of handleFit with
\* the values its closure captured, or NoTimer.  processing, baseline and
\* globalProfile stay at their initial values ({normalize: false}, method
\* 'none', 'gaussian'), so processedData is rawData and calculatedBaseline
\* is all zero.
\* ------------------------------------------------------------------------
libVars == <<baselineOptions, callVars, pc, lmVars, fitResult, call>>

\* the number of user events in one behaviour
MaxEvents == 6
\* the longest component list Add Peak is used on
MaxComponents == 3

processedDataOf(rawData) == IF Len(rawData) = 0 THEN <<>> ELSE rawData

\* ControlPanel.normalizeWeights
normalizeWeights(comps) ==
  IF Len(comps) = 0 THEN comps
  ELSE LET total == XSum([i \in 1..Len(comps) |->
                            IF comps[i].weight = Undefined THEN Scale ELSE comps[i].weight])
       IN IF total = 0
          THEN [i \in 1..Len(comps) |-> [comps[i] EXCEPT !.weight = Scale \div Len(comps)]]
          ELSE [i \in 1..Len(comps) |->
                  [comps[i] EXCEPT !.weight =
                     ((IF comps[i].weight = Undefined THEN Scale ELSE comps[i].weight) * Scale)
                       \div total]]

\* the FileReader's onload callback: handleFileLoad with the parsed file
HandleFileLoad ==
  /\ ui.events < MaxEvents
  /\ \E parsed \in { <<Pt(0, 0), Pt(100, 500), Pt(200, 100), Pt(300, 800), Pt(400, 0)>>,
                     <<Pt(0, 100), Pt(100, 300), Pt(200, 150)>> } :
       ui' = [ui EXCEPT !.rawData = parsed, !.components = <<>>, !.fitResult = NoResult,
                        !.events = @ + 1]
  /\ UNCHANGED libVars

\* Add Peak with the new id taken from the length of the list
AddComponentByCount ==
  /\ ui.events < MaxEvents
  /\ Len(ui.rawData) > 0
  /\ Len(ui.components) < MaxComponents
  /\ LET processedData == processedDataOf(ui.rawData)
         min == MinOf(Xs(processedData))
         max == MaxOf(Xs(processedData))
         maxY == MaxOf(Ys(processedData) \o <<Scale>>)
     IN ui' = [ui EXCEPT !.components =
                           normalizeWeights(
                             Append(@, Comp(Len(ui.components) + 1, "gaussian",
                                            (min + max) \div 2, maxY, (max - min) \div 10,
                                            Scale))),
                         !.events = @ + 1]
  /\ UNCHANGED libVars

\* Add Peak
AddComponent ==
  /\ ui.events < MaxEvents
  /\ Len(ui.rawData) > 0
  /\ Len(ui.components) < MaxComponents
  /\ LET processedData == processedDataOf(ui.rawData)
         newId == IF Len(ui.components) > 0
                  THEN MaxOf([i \in 1..Len(ui.components) |-> ui.components[i].id]) + 1
                  ELSE 1
         min == MinOf(Xs(processedData))
         max == MaxOf(Xs(processedData))
         maxY == MaxOf(Ys(processedData) \o <<Scale>>)
     IN ui' = [ui EXCEPT !.components =
                           normalizeWeights(
                             Append(@, Comp(newId, "gaussian", (min + max) \div 2, maxY,
                                            (max - min) \div 10, Scale))),
                         !.events = @ + 1]
  /\ UNCHANGED libVars

\* Remove Peak on one of the listed components
RemoveComponent ==
  /\ ui.events < MaxEvents
  /\ \E k \in 1..Len(ui.components) :
       ui' = [ui EXCEPT !.components =
                          normalizeWeights(
                            SelectSeq(@, LAMBDA c : c.id # ui.components[k].id)),
                        !.events = @ + 1]
  /\ UNCHANGED libVars

\* the weight slider of one of the listed components (0.01 to 2)
UpdateComponentWeight ==
  /\ ui.events < MaxEvents
  /\ \E k \in 1..Len(ui.components), newWeight \in {1, 2 * Scale} :
       ui' = [ui EXCEPT !.components =
                          normalizeWeights(
                            [i \in 1..Len(@) |->
                               IF @[i].id = @[k].id THEN [@[i] EXCEPT !.weight = newWeight]
                               ELSE @[i]]),
                        !.events = @ + 1]
  /\ UNCHANGED libVars

\* the Auto Init button
AutoInit ==
  /\ ui.events < MaxEvents
  /\ Len(processedDataOf(ui.rawData)) > 0
  /\ \E initMethod \in {"gmm", "evenly"}, numPeaks \in 1..2,
        processedData \in {processedDataOf(ui.rawData)} :
       \E calculatedBaseline \in {calculateBaseline(processedData, NoOptions)} :
         \E correctedData \in
              { [i \in 1..Len(processedData) |->
                   Pt(processedData[i].x,
                      XSub(processedData[i].y,
                           OrZero(MapGet(calculatedBaseline, processedData[i].x))))] } :
           \E dataForInit \in {IF Len(calculatedBaseline) > 0 THEN correctedData
                                ELSE processedData} :
             ui' = [ui EXCEPT
                      !.components =
                         IF initMethod = "gmm" THEN initWithGMM(dataForInit, numPeaks, "gaussian")
                         ELSE initEvenlySpaced(dataForInit, numPeaks, "gaussian"),
                      !.events = @ + 1]
  /\ UNCHANGED libVars

\* Run Fit: handleFit up to the setTimeout; the button is disabled while
\* isLoading, and without data or components handleFit only shows a toast
HandleFit ==
  /\ ui.events < MaxEvents
  /\ ~ui.isLoading
  /\ Len(processedDataOf(ui.rawData)) > 0
  /\ Len(ui.components) > 0
  /\ ui' = [ui EXCEPT !.isLoading = TRUE,
                      !.timer = [kind |-> "handleFit",
                                 processedData |-> processedDataOf(ui.rawData),
                                 components |-> ui.components],
                      !.events = @ + 1]
  /\ UNCHANGED libVars

\* the setTimeout callback of handleFit.  The optimizer is reduced to its
\* outcome: a final amplitude per component, negative (clamped to 0 by the
\* unpacking) or positive, with center and width as they were.
FitTimer ==
  /\ ui.timer # NoTimer
  /\ LET comps == ui.timer.components
         n == Len(comps)
     IN \E amps \in [1..n -> {0 - Scale, 2 * Scale}] :
          LET ps == [k \in 1..(3 * n) |->
                       LET c == comps[(k + 2) \div 3]
                       IN IF k % 3 = 1 THEN c.center
                          ELSE IF k % 3 = 2 THEN amps[(k + 2) \div 3]
                          ELSE c.width]
              parameters == optimizedParamsOf(comps, ps)
              totalAmp == XSum([i \in 1..n |-> parameters[i].amplitude])
              updatedComponents ==
                [i \in 1..n |->
                   [parameters[i] EXCEPT
                      !.amplitude = totalAmp,
                      !.weight = IF totalAmp > 0 THEN (parameters[i].amplitude * Scale) \div totalAmp
                                 ELSE Scale \div n]]
          IN ui' = [ui EXCEPT !.fitResult = [kind |-> "FitResult",
                                             baselineCorrectedData |-> ui.timer.processedData,
                                             parameters |-> parameters],
                              !.components = updatedComponents,
                              !.isLoading = FALSE,
                              !.timer = NoTimer]
  /\ UNCHANGED libVars

\* the Reset button
HandleReset ==
  /\ ui.events < MaxEvents
  /\ Len(ui.rawData) > 0
  /\ ui' = [ui EXCEPT !.components = <<>>, !.fitResult = NoResult, !.events = @ + 1]
  /\ UNCHANGED libVars

UINext ==
  \/ HandleFileLoad
  \/ AddComponent
  \/ RemoveComponent
  \/ UpdateComponentWeight
  \/ AutoInit
  \/ HandleFit
  \/ FitTimer
  \/ HandleReset

UISpec == Init /\ [][UINext]_vars


\* ------------------------------------------------------------------------
\* fitPeaks called as a library function, with baseline options, data and a
\* baseline curve of the caller's choice
\* ------------------------------------------------------------------------
LibraryFitCall ==
  /\ pc = "idle"
  /\ \E opts \in { [method |-> "rolling_ball", optimizeSimultaneously |-> TRUE,
                    slope |-> 0, intercept |-> 0, radius |-> r] :
                     r \in {0, 2 * Scale, 10 * Scale} } \cup
                 { [method |-> "none", optimizeSimultaneously |-> FALSE,
                    slope |-> 0, intercept |-> 0, radius |-> 10 * Scale] },
        d \in (DataSets \ {<<>>}) \cup
                \* two samples at x = 1
                { <<Pt(0, 0), Pt(100, 100), Pt(100, 50), Pt(200, 0)>> },
        comps \in ComponentLists \ {<<>>},
        mi \in 0..MaxIter :
       \E bl \in BaselineCurves(d) \cup { [i \in 1..Len(d) |-> Pt(d[i].x, 10 * i)] } :
         /\ baselineOptions' = opts
         /\ data' = d
         /\ components' = comps
         /\ baseline' = bl
         /\ caller' = "fitPeaks"
         /\ LMEnter(d, comps, opts, targetYValsOf(d, bl, opts),
                    initialParamsOf(comps, opts), FitOptions(mi))
         /\ pc' = "lm"
  /\ UNCHANGED <<fitResult, call, ui>>

FitNext ==
  \/ LibraryFitCall
  \/ LMLoopEnd
  \/ LMSingular
  \/ LMAccept
  \/ LMReject
  \/ FitPeaksReturn

FitSpec == Init /\ [][FitNext]_vars


\* ------------------------------------------------------------------------
\* Properties
\* ------------------------------------------------------------------------
Degenerate == Len(data) = 0 \/ Len(components) = 0
Returned == pc \in {"lmret", "done"} /\ caller # "none" /\ ~Degenerate
Fitted == fitResult # NoResult /\ ~Degenerate
Triple == <<params, residuals, chiSquared>>
InitialParams == initialParamsOf(components, baselineOptions)

\* the pass about to run meets a singular system
SingularPass ==
  /\ pc = "lm"
  /\ iter < options.maxIterations
  /\ Null \in SolveOutcomes(params, residuals, lambdaExp)

\* C1: levenbergMarquardt returns converged = true exactly when its last pass
\* was an accepted step whose relative chi-squared improvement was below the
\* tolerance; a run ended by maxIterations or by lambda > 1e10 returns
\* converged = false, and fitPeaks reports the flag unchanged.
C1_ConvergedIff ==
  /\ Returned =>
       (converged <=>
          (lastStep = "accepted" /\ chiBefore - chiSquared <= chiBefore \div options.tolInv))
  /\ Fitted => fitResult.converged = converged

C1_Witness == pc = "lmret" /\ converged /\ passes > 1

\* C2: the triple (params, residuals, chiSquared) changes only on an accepted
\* step, which strictly lowers chiSquared; a rejected or singular pass leaves
\* it unchanged; residuals and chiSquared are always those of params.
C2_TripleOfParams ==
  pc \in {"lm", "lmret"} =>
    /\ residuals = ResidualsOf(y, modelFunc(Xs(data), params))
    /\ chiSquared = ChiSquaredOf(residuals)

C2_AcceptedOnly ==
  /\ []C2_TripleOfParams
  /\ [][pc = "lm" =>
          \/ Triple' = Triple
          \/ (lastStep' = "accepted" /\ passes' = passes + 1 /\ XLt(chiSquared', chiSquared))]_vars

C2_Witness == pc = "lmret" /\ lastStep = "rejected" /\ params # InitialParams

\* C3: fitPeaks with an empty dataset or no component does not call the
\* optimizer and returns empty curves, zero statistics, iterations 0,
\* converged false and the input components.
C3_DegenerateResult ==
  (caller = "fitPeaks" /\ Degenerate) =>
    /\ pc = "done" /\ passes = 0
    /\ fitResult.fittedData = <<>> /\ fitResult.residuals = <<>>
    /\ fitResult.components = <<>> /\ fitResult.baseline = <<>>
    /\ fitResult.baselineCorrectedData = <<>>
    /\ fitResult.rSquared = 0 /\ fitResult.adjustedRSquared = 0 /\ fitResult.rmse = 0
    /\ fitResult.chiSquared = 0 /\ fitResult.reducedChiSquared = 0
    /\ fitResult.aic = 0 /\ fitResult.bic = 0
    /\ fitResult.iterations = 0 /\ fitResult.converged = FALSE
    /\ fitResult.parameters = components

C3_Witness == caller = "fitPeaks" /\ Len(data) = 0 /\ Len(components) > 0 /\ pc = "done"

\* C4: in every fit the objective accounts for the baseline: the target is
\* y minus the supplied baseline (always so for the methods none and manual),
\* or the model function adds a baseline term.
C4_BaselineInObjective ==
  (caller = "fitPeaks" /\ ~Degenerate) =>
    LET corrected == [i \in 1..Len(data) |-> data[i].y - OrZero(MapGet(baseline, data[i].x))]
        \* the packed vector carries baseline parameters for the model function
        modelHasBaseline == Len(params) > 3 * Len(components)
    IN /\ y = corrected \/ modelHasBaseline
       /\ baselineOptions.method \in {"none", "manual"} => y = corrected

\* C5: in simultaneous mode fittedData + baseline reproduces the model
\* function at the optimizer's final parameters, index by index.
C5_DecompositionIsModel ==
  (Fitted /\ optimizeBaselineOf(baselineOptions)) =>
    \A i \in 1..Len(data) :
      XAdd(fitResult.fittedData[i].y, OrZero(MapGet(fitResult.baseline, data[i].x)))
        = modelFunc(Xs(data), params)[i]

\* C6: every component of FitResult.parameters of a non-degenerate fit has
\* width >= 0.01, amplitude >= 0, weight 1.0 and the id and profile of the
\* input component at its index; the list has the length of the input.
C6_ClampedParameters ==
  Fitted =>
    /\ Len(fitResult.parameters) = Len(components)
    /\ \A i \in 1..Len(components) :
         LET q == fitResult.parameters[i]
         IN /\ IsNum(q.width) /\ q.width >= MinWidth
            /\ IsNum(q.amplitude) /\ q.amplitude >= 0
            /\ q.weight = Scale
            /\ q.id = components[i].id
            /\ q.profile = components[i].profile

C6_Witness ==
  /\ Fitted
  /\ \E i \in 1..Len(components) : params[(i - 1) * 3 + 2] < 0 \/ params[(i - 1) * 3 + 3] < MinWidth

\* C7: the parameter vector the optimizer holds has width >= 0.01 and
\* amplitude >= 0 for every component after every step.
C7_ClampedEachStep ==
  (pc \in {"lm", "lmret"} /\ caller = "fitPeaks") =>
    \A i \in 1..Len(components) :
      params[(i - 1) * 3 + 2] >= 0 /\ params[(i - 1) * 3 + 3] >= MinWidth

\* C8 (as stated): a singular pass multiplies lambda by lambdaUp, keeps the
\* parameters, continues, and ends the loop once lambda exceeds 1e10.
C8_SingularAsRejected ==
  [][SingularPass =>
       /\ lambdaExp' = lambdaExp + options.lambdaUpExp
       /\ Triple' = Triple
       /\ passes' = passes + 1
       /\ pc' = IF lambdaExp' > MaxLambdaExp THEN "lmret" ELSE "lm"]_vars

\* C8 (amended): a singular pass multiplies lambda by lambdaUp, keeps params,
\* residuals and chiSquared, counts as one pass and continues with the next
\* pass whatever lambda has become; only an ordinary rejected step tests
\* lambda > 1e10 and ends the loop.
C8_SingularContinues ==
  [][/\ SingularPass =>
          /\ lambdaExp' = lambdaExp + options.lambdaUpExp
          /\ Triple' = Triple
          /\ passes' = passes + 1 /\ iter' = iter + 1 /\ iterations' = iter + 1
          /\ pc' = "lm" /\ ~converged'
     /\ (pc = "lm" /\ pc' = "lmret" /\ lambdaExp' > MaxLambdaExp /\ ~converged')
          => (lastStep' = "rejected" /\ passes' = passes + 1) \/ UNCHANGED lmVars]_vars

C8_Witness == pc = "lm" /\ lastStep = "singular" /\ lambdaExp > MaxLambdaExp

\* C9: levenbergMarquardt terminates: every pass of the loop is a step that
\* either returns or starts one more pass (a singular pass counts as one), a
\* pass can always be made, and no more than maxIterations passes are started;
\* iterations is the number of passes started; with maxIterations = 0 it
\* returns the initial parameters, iterations 0 and converged false.
C9_BoundedPasses ==
  /\ [](pc \in {"lm", "lmret"} =>
         /\ passes <= options.maxIterations
         /\ iterations = passes
         /\ (pc = "lm" /\ iter < options.maxIterations) =>
              SolveOutcomes(params, residuals, lambdaExp) # {}
         /\ options.maxIterations = 0 =>
              (params = InitialParams /\ iterations = 0 /\ ~converged))
  /\ [][pc = "lm" =>
          \/ pc' = "lm" /\ passes' = passes + 1 /\ iter' = iter + 1
          \/ pc' = "lmret" /\ passes' \in {passes, passes + 1}]_vars

C9_Witness == pc = "lmret" /\ passes = options.maxIterations /\ passes >= MaxIter

\* C10: when the optimizer leaves the parameter vector unchanged, every
\* returned component has the input's center, the input's width (when that is
\* at least 0.01) and, with weight reset to 1.0, the input's amplitude x weight
\* (when that is not negative).
C10_PackUnpack ==
  (Fitted /\ params = InitialParams) =>
    \A i \in 1..Len(components) :
      LET q == fitResult.parameters[i]
          c == components[i]
      IN /\ q.center = c.center
         /\ c.width >= MinWidth => q.width = c.width
         /\ q.weight = Scale
         /\ c.amplitude * c.weight >= 0 =>
              (q.amplitude * q.weight) \div Scale = (c.amplitude * c.weight) \div Scale

C10_Witness ==
  /\ Fitted /\ params = InitialParams
  /\ \E i \in 1..Len(components) : components[i].weight # Scale /\ components[i].weight # 0

\* C11: the fitted curve reported in FitResult evaluates every component with
\* the sigma and gamma the optimizer's model function used: at parameters the
\* unpacking leaves as they are, fittedData is the model function's peak sum.
C11_SameSigmaGamma ==
  (Fitted /\ \A c \in 1..Len(components) :
               params[(c - 1) * 3 + 2] >= 0 /\ params[(c - 1) * 3 + 3] >= MinWidth) =>
    \A i \in 1..Len(data) :
      fitResult.fittedData[i].y = PeakSum(components, Xs(data), params)[i]


C13_StageOrder ==
  /\ [](call.fn = "processData" /\ call.stage > Len(Stages) =>
          call.processed =
            Normalize(Smooth(Resample(Crop(RemoveOutliers(call.data, call.options),
                                           call.options), call.options), call.options),
                      call.options))
  /\ [][call.fn = "processData" /\ call'.fn = "processData" /\ call'.stage = call.stage + 1 =>
          LET o == call.options
              off == CASE call.stage = 1 -> o.outlierMethod = "none"
                       [] call.stage = 2 -> o.xMin = Undefined /\ o.xMax = Undefined
                       [] call.stage = 3 -> o.interpolationStep = Undefined \/ o.interpolationStep = 0
                       [] call.stage = 4 -> ~o.smoothing
                       [] call.stage = 5 -> ~o.normalize
          IN off => call'.processed = call.processed]_vars

\* a returned call where cropping before the outlier removal would have kept
\* the outlier, and normalization divided by a smoothed maximum
C13_Witness ==
  /\ call.fn = "processData" /\ call.stage > Len(Stages)
  /\ call.options.outlierMethod = "zscore" /\ call.options.xMin = 300
  /\ call.options.smoothing /\ call.options.normalize
  /\ call.processed # Normalize(Smooth(Resample(RemoveOutliers(Crop(call.data, call.options),
                                 call.options), call.options), call.options), call.options)
  /\ Smooth(Resample(Crop(RemoveOutliers(call.data, call.options), call.options),
                     call.options), call.options)
       # Resample(Crop(RemoveOutliers(call.data, call.options), call.options), call.options)

\* C14: on finite input the baseline that calculateBaseline returns holds no
\* NaN and no infinite value; in particular the automatic linear baseline of
\* a dataset whose first and last sample share their x is finite.
C14_FiniteBaseline ==
  call.fn = "calculateBaseline" =>
    \A i \in 1..Len(call.result) : IsNum(call.result[i].y)

\* one pass of the 3-point moving average over v, the end points kept
C15_Pass(v) ==
  [k \in 1..Len(v) |-> IF k = 1 \/ k = Len(v) THEN v[k]
                       ELSE Mean3(v[k - 1], v[k], v[k + 1])]

\* C15: rollingBallBaseline returns the sliding-window minimum over
\* [i - ceil(r), i + ceil(r)] (clipped to the data) followed by three
\* successive passes of the 3-point moving average, each pass applied to the
\* output of the pass before it.
C15_ThreeSuccessivePasses ==
  call.fn = "rollingBallBaseline" /\ Len(call.data) >= 3 =>
    LET n == Len(call.data)
        yv == Ys(call.data)
        h == Ceil(call.radius)
        minimum == [k \in 1..n |->
                      XMinOf(yv, IF k - 1 - h < 0 THEN 0 ELSE k - 1 - h,
                                 IF k + h > n THEN n ELSE k + h)]
    IN Ys(call.result) = C15_Pass(C15_Pass(C15_Pass(minimum)))

\* C16: for n >= 3 samples and radii 1 <= r1 <= r2, the baseline of r2 is
\* nowhere above the baseline of r1, which is nowhere above the data.
C16_MonotoneBelowData ==
  call.fn = "rollingBallBaseline" /\ Len(call.data) >= 3 /\ call.radius >= Scale =>
    \A i \in 1..Len(call.data) :
      /\ call.result[i].y <= call.data[i].y
      /\ \A r2 \in Radii :
           r2 >= call.radius => rollingBallBaseline(call.data, r2)[i].y <= call.result[i].y

\* the sum of max(0, y - baseline) over all samples
C17_Area(yv, bl) == XSum([k \in 1..Len(yv) |-> IF yv[k] > bl[k] THEN yv[k] - bl[k] ELSE 0])

\* C17: shirleyBaseline makes at most maxIterations passes; a pass either
\* counts as an iteration or ends the loop; the loop ends as soon as a pass
\* changed the baseline by less than tolerance x (|yStart - yEnd| + 1e-10);
\* with a total area of zero it ends without dividing and keeps the current
\* baseline (the end-point line in the first pass); fewer than 3 samples give
\* an all-zero baseline.
C17_ShirleyStops ==
  /\ [](call.fn = "shirleyBaseline" =>
          /\ call.iter <= call.maxIterations
          /\ \A k \in 1..Len(call.baseline) : IsNum(call.baseline[k])
          /\ Len(call.data) < 3 =>
                call.stop = "short" /\ \A k \in 1..Len(call.data) : call.baseline[k] = 0
          /\ call.stop # "none" =>
                Zip(Xs(call.data), call.baseline)
                  = shirleyBaseline(call.data, call.maxIterations, call.tolInv))
  /\ [][call.fn = "shirleyBaseline" /\ call.stop = "none" /\ call' # call =>
          LET yv == Ys(call.data)
              span == Abs(yv[1] - yv[Len(yv)])
              change == MaxAbsDiff(call'.baseline, call.baseline, 1)
          IN IF call.iter >= call.maxIterations
               THEN call'.stop = "maxIterations" /\ call'.baseline = call.baseline
             ELSE IF C17_Area(yv, call.baseline) = 0
               THEN /\ call'.stop = "zeroArea" /\ call'.baseline = call.baseline
                    /\ call.iter = 0 => call'.baseline = ShirleyInit(yv)
             ELSE /\ call'.iter = call.iter + 1
                  /\ (call'.stop = "tolerance") = (change * call.tolInv <= span)
                  /\ call'.stop \in {"tolerance", "none"}]_vars

\* the loop ended in its first pass on a total area of zero
C17_Witness ==
  /\ call.fn = "shirleyBaseline" /\ call.stop = "zeroArea" /\ call.iter = 0
  /\ call.maxIterations > 0
  /\ call.baseline = ShirleyInit(Ys(call.data))
  /\ \E k \in 1..Len(call.data) : call.data[k].y < call.baseline[k]

\* the control points of the call in the order of their x, and the ways of
\* supplying them
C18_Sorted == SortByX(call.points)

C19_Orders ==
  LET n == Len(call.points)
  IN { [k \in 1..n |-> call.points[f[k]]] :
         f \in {g \in [1..n -> 1..n] : \A a, b \in 1..n : g[a] = g[b] => a = b} }

\* C18: outside the span of the control points manualBaseline continues the
\* boundary segment with its slope, in linear and in cubic mode.
C18_LinearExtrapolation ==
  call.fn = "manualBaseline" /\ Len(call.points) >= 2 =>
    LET n == Len(call.points)
        p == C18_Sorted
    IN \A i \in 1..Len(call.data) :
         LET x == call.data[i].x
             r == call.result[i].y
         IN /\ (x < p[1].x /\ p[1].x # p[2].x) =>
                 (r - p[1].y) * (p[2].x - p[1].x) = (p[2].y - p[1].y) * (x - p[1].x)
            /\ (x > p[n].x /\ p[n].x # p[n - 1].x) =>
                 (r - p[n].y) * (p[n].x - p[n - 1].x) = (p[n].y - p[n - 1].y) * (x - p[n].x)

\* what C19 says of a call with the control points pts in linear mode
C19_Holds ==
  LET n == Len(call.points)
      p == C18_Sorted
  IN /\ Len(call.result) = Len(call.data)
     /\ n < 2 => \A i \in 1..Len(call.data) : call.result[i].y = 0
     /\ n >= 2 =>
          /\ \A i \in 1..Len(call.data) :
               LET x == call.data[i].x
                   r == call.result[i].y
               IN /\ (x >= p[1].x /\ x <= p[n].x) =>
                       \E k \in 1..n - 1 :
                         /\ p[k].x <= x /\ x <= p[k + 1].x
                         /\ (r - p[k].y) * (p[k + 1].x - p[k].x)
                              = (x - p[k].x) * (p[k + 1].y - p[k].y)
                  /\ \A k \in 1..n : call.points[k].x = x => r = call.points[k].y
          /\ \A pts \in C19_Orders : manualBaseline(call.data, pts, "linear") = call.result

C20_D2(k, j) == IF j = k \/ j = k + 2 THEN 1 ELSE IF j = k + 1 THEN 0 - 2 ELSE 0

\* entry (i, j) of W + lambda * D2^T * D2, and 0 for a column outside 1..n
C20_Entry(i, j) ==
  LET n == Len(call.y)
      S[k \in 0..n - 2] == IF k = 0 THEN 0 ELSE S[k - 1] + C20_D2(k, i) * C20_D2(k, j)
  IN IF j < 1 \/ j > n THEN 0
     ELSE (IF i = j THEN call.w[i] ELSE 0) + call.lambda * S[n - 2]

\* C20: for every n >= 3 the bands that whittakerSmooth assembles are those
\* of W + lambda * D2^T * D2: the matrix is symmetric, no band entry lies in
\* a column outside the matrix, and interior rows carry
\* [lambda, -4 lambda, w + 6 lambda, -4 lambda, lambda].
C20_WhittakerSystem ==
  call.fn = "whittakerSmooth" =>
    \A i \in 1..Len(call.y) :
      /\ call.bands[i].a = C20_Entry(i, i - 2)
      /\ call.bands[i].b = C20_Entry(i, i - 1)
      /\ call.bands[i].c = C20_Entry(i, i)
      /\ call.bands[i].d = C20_Entry(i, i + 1)
      /\ call.bands[i].e = C20_Entry(i, i + 2)

C22_WeightsSumToOne ==
  Len(ui.components) > 0
    => Abs(XSum([i \in 1..Len(ui.components) |-> ui.components[i].weight]) - Scale)
         <= Len(ui.components)

\* C23: in simultaneous mode with method rolling_ball the peak-only curve used
\* for the final baseline recomputation is the sum of the optimized peak
\* profiles alone, finite and without a baseline contribution, and
\* FitResult.baseline is finite at every index.
C23_FiniteFinalBaseline ==
  (Fitted /\ optimizeBaselineOf(baselineOptions) /\ baselineOptions.method = "rolling_ball") =>
    LET peakParams == SubSeq(params, 1, Len(components) * 3)
        peakModel == modelFunc(Xs(data), peakParams)
    IN /\ peakModel = PeakSum(components, Xs(data), peakParams)
       /\ \A i \in 1..Len(data) : IsNum(peakModel[i]) /\ IsNum(fitResult.baseline[i].y)

\* C24: if the initial parameters already reproduce the target exactly
\* (initial chi-squared = 0), levenbergMarquardt returns the initial
\* parameters unchanged with converged = true (stated for the calls that
\* allow at least one pass of the loop).
C24_ExactStartConverges ==
  (Returned /\ options.maxIterations > 0
     /\ ChiSquaredOf(ResidualsOf(y, modelFunc(Xs(data), InitialParams))) = 0)
    => (params = InitialParams /\ converged)

C26_ChiSquaredOfResiduals ==
  (Fitted /\ ~optimizeBaselineOf(baselineOptions)) =>
    fitResult.chiSquared = ChiSquaredOf(Ys(fitResult.residuals))

\* C27: for a baseline that is index-aligned with the data, fitPeaks in
\* sequential mode subtracts at index i exactly baseline[i].y, in the
\* optimization target and in the reported baselineCorrectedData, also for
\* data with repeated x values.
C27_SubtractsByIndex ==
  (caller = "fitPeaks" /\ ~Degenerate /\ ~optimizeBaselineOf(baselineOptions)
     /\ Xs(baseline) = Xs(data)) =>
    /\ y = [i \in 1..Len(data) |-> data[i].y - baseline[i].y]
    /\ Fitted => \A i \in 1..Len(data) :
                   fitResult.baselineCorrectedData[i].y = data[i].y - baseline[i].y

\* C28: loading a new file clears components and fitResult, and fitResult then
\* stays undefined until a fit is started on the newly loaded data: a result
\* held by the page was computed from the data the page holds, whatever fit
\* was pending when the file was loaded, and isLoading is true exactly while
\* a fit timer is pending.
C28_ResultOfLoadedData ==
  /\ ui.fitResult # NoResult
       => ui.fitResult.baselineCorrectedData = processedDataOf(ui.rawData)
  /\ ui.isLoading <=> ui.timer # NoTimer

\* C29: after any sequence of Add Peak, Remove Peak, Auto Init (GMM or evenly
\* spaced) and completed fits, the component ids held by the page are pairwise
\* distinct.
C29_DistinctIds ==
  \A i, j \in 1..Len(ui.components) :
    i # j => ui.components[i].id # ui.components[j].id

\* Auto Init with 2 peaks, Add Peak, Remove Peak of peak 2, Add Peak and a
\* completed fit: the ids are 1, 3, 4
C29_Witness ==
  /\ ui.fitResult # NoResult
  /\ Len(ui.components) = 3
  /\ [i \in 1..3 |-> ui.components[i].id] = <<1, 3, 4>>

\* C30: for non-empty data and an integer nPeaks >= 1, initEvenlySpaced and
\* initWithGMM each return exactly nPeaks components with ids 1..nPeaks in
\* order of non-decreasing center, weight 1.0 and the requested profile; for
\* empty data or nPeaks < 1 both return an empty list.
C30_Initializers ==
  call.fn \in {"initWithGMM", "initEvenlySpaced"} =>
    IF Len(call.data) = 0 \/ call.nPeaks < 1 THEN call.result = <<>>
    ELSE /\ Len(call.result) = call.nPeaks
         /\ \A k \in 1..call.nPeaks :
              /\ call.result[k].id = k
              /\ call.result[k].weight = Scale
              /\ call.result[k].profile = call.profile
              /\ k > 1 => call.result[k - 1].center <= call.result[k].center

\* initWithGMM asked for 3 peaks on data with two prominent maxima: the two
\* detected peaks and one evenly spaced peak between them
C30_Witness ==
  /\ call.fn = "initWithGMM" /\ call.nPeaks = 3
  /\ call.data = <<Pt(0, 0), Pt(100, 500), Pt(200, 100), Pt(300, 800), Pt(400, 0)>>
  /\ [k \in 1..3 |-> <<call.result[k].center, call.result[k].amplitude>>]
       = <<<<100, 500>>, <<200, 800>>, <<300, 800>>>>

====
